---- MODULE Spec2Model ----
(***************************************************************************)
(* A model of dbcore: the connection pool (udbcore/connection_pool.py),    *)
(* the DuckDB wrapper with its retry engine (udbcore/ddb.py) and the       *)
(* transaction coordinator (udbcore/transactions.py).                      *)
(*                                                                         *)
(* PoolSpec  : caller threads and the reaper thread around one pool.       *)
(* TxnSpec   : one client driving one DuckDB object, its retry engine and  *)
(*             a TransactionManager over the embedded engine.             *)
(* DbTxnSpec : the same client using DuckDB.transaction instead.           *)
(* PoolUseSpec: callers of get_connection that run queries on the objects  *)
(*             the pool handed out.                                        *)
(* PoolHoldSpec: callers that keep the objects they got and go on using    *)
(*             them, beside the reaper.                                    *)
(* MonSpec   : the retry engine with a monitor whose record_query may      *)
(*             raise.                                                      *)
(* NameSpec  : DB.acceptable_name applied to file names (udbcore/db.py).    *)
(* HistSpec  : HealthMonitor.record_query and its history                  *)
(*             (dbcore/monitoring.py).                                     *)
(* GlobSpec  : threads calling get_global_pool and close_global_pool.      *)
(***************************************************************************)
EXTENDS Integers, Sequences, FiniteSets, TLC

VARIABLES
    \* ---- ConnectionPool ------------------------------------------------
    max_connections,     \* ConnectionPool.max_connections
    connection_timeout,  \* ConnectionPool.connection_timeout
    pool,                \* ConnectionPool._pool, in dict (insertion) order
    lock,                \* owner of ConnectionPool._lock, or NoThread
    running,             \* ConnectionPool._running
    now,                 \* the wall clock read by time.time()
    th,                  \* per caller thread: position and locals
    rpc,                 \* the reaper thread's position
    rtime,               \* the reaper's local current_time
    \* ---- DuckDB objects and the embedded engine --------------------------
    loaded,              \* DuckDB.loaded of each object
    conn,                \* DuckDB.conn of each object (a handle, or None)
    sess,                \* the engine's open handles, each with its session:
                         \*   txn "none" | "active" | "aborted", pending rows
    store,               \* committed rows of the database file
    \* ---- one client of DuckDB / TransactionManager -----------------------
    retry_attempts,      \* DuckDB.retry_attempts
    has_monitor,         \* DuckDB._health_monitor is not None
    in_transaction,      \* TransactionManager.in_transaction
    cl,                  \* the client: position, locals of the running call
    nextStmt,            \* next fresh statement (row) identity
    ghost,               \* history the properties read; the code never reads it
    \* ---- DB.acceptable_name ----------------------------------------------
    arg_name,            \* the argument, a sequence of characters
    verdict,             \* "-" before the call, then "True" or "ValueError"
    \* ---- HealthMonitor ---------------------------------------------------
    mon,                 \* max_query_history, query_history, records made
    \* ---- the global pool --------------------------------------------------
    gp                   \* _global_pool, _pool_lock and the threads calling

poolVars == <<max_connections, connection_timeout, pool, lock, running, now, th, rpc, rtime>>
objVars  == <<loaded, conn, sess, store>>
cliVars  == <<retry_attempts, has_monitor, in_transaction, cl, nextStmt, ghost>>
nameVars == <<arg_name, verdict>>
auxVars  == <<nameVars, mon, gp>>
vars     == <<poolVars, objVars, cliVars, auxVars>>

-----------------------------------------------------------------------------
\* Bounds of the model
MaxConn    == 2      \* largest max_connections configured
MaxTime    == 1      \* the clock runs 0..MaxTime
MaxRetry   == 3      \* largest retry_attempts configured
MaxStmts   == 3      \* statements issued in one behaviour
MaxGen     == 3      \* identities per path (objects) and per object (handles)
MaxPad     == 14     \* longest run of letters a file name starts with
MaxHist    == 3      \* largest max_query_history configured
MaxRecords == 5      \* record_query calls in one behaviour
MaxPools   == 2      \* pools constructed before the last call starts

\* connection_timeout values configured (0: reap whatever is idle at all)
Timeouts == {0}

Callers  == {"t1", "t2"}
Reaper   == "reaper"
NoThread == "none"

\* Keys handed to the pool.  The last one has a file name with a space.
GoodPaths == {"/d/a.duckdb", "/d/b.duckdb", "/d/c.duckdb"}
BadPaths  == {"/d/x y.duckdb"}
Paths     == GoodPaths \cup BadPaths

\* Identities.  A DuckDB object is <<path, n>>, an engine handle <<path, n, k>>.
\* An identity is fresh when nothing refers to it any more, so MaxGen only
\* has to cover what can be referred to at one time.  <<>> is None.
DbPath    == "/d/main.duckdb"
DbObj     == <<DbPath, 1>>
ObjIds    == (GoodPaths \X (1..MaxGen)) \cup {DbObj}
HandleIds == {<<o[1], o[2], k>> : o \in ObjIds, k \in 1..MaxGen}
None      == <<>>
Times     == 0..MaxTime

-----------------------------------------------------------------------------
\* udbcore/db.py, udbcore/ddb.py: construction of a DuckDB object

\* The characters of the keys above (TLC strings are atoms).
Chars(p) ==
    CASE p = "/d/a.duckdb"   -> <<"/","d","/","a",".","d","u","c","k","d","b">>
      [] p = "/d/b.duckdb"   -> <<"/","d","/","b",".","d","u","c","k","d","b">>
      [] p = "/d/c.duckdb"   -> <<"/","d","/","c",".","d","u","c","k","d","b">>
      [] p = "/d/x y.duckdb" -> <<"/","d","/","x"," ","y",".","d","u","c","k","d","b">>

Lower(c) == CASE c = "D" -> "d" [] c = "U" -> "u" [] c = "C" -> "c"
              [] c = "K" -> "k" [] c = "B" -> "b" [] OTHER -> c

Suffix == <<".","d","u","c","k","d","b">>

EndsWithDuckdb(s) ==
    /\ Len(s) >= Len(Suffix)
    /\ \A i \in 1..Len(Suffix) : Lower(s[Len(s) - Len(Suffix) + i]) = Suffix[i]

Contains(s, c) == \E i \in 1..Len(s) : s[i] = c

NameMaxLenExclusive == 20 - 1

NameMaxLen == 20

\* DB.acceptable_name: TRUE when it returns, FALSE when it raises ValueError
acceptable_name(name) ==
    /\ Len(name) # 0
    /\ ~(Len(name) > NameMaxLen)
    /\ ~Contains(name, " ")
    /\ ~(Contains(name, "/") \/ Contains(name, "\\"))
    /\ EndsWithDuckdb(name)

\* The names handed to DB.acceptable_name: a run of letters, one character
\* of interest or none, and an ending.
Pad(n) == [i \in 1..n |-> "a"]

Mids == {<<>>, <<" ">>, <<"/">>, <<"\\">>, <<"D">>}

Exts == {<<>>,
         <<".","d","u","c","k","d","b">>,
         <<".","D","U","C","K","D","B">>,
         <<".","D","u","c","k","D","b">>,
         <<".","d","u","c","k","d">>,
         <<".","d","u","c","k","d","b","x">>,
         <<"d","u","c","k","d","b">>,
         <<".","d","u","c","k","d","b"," ">>}

Names == {Pad(n) \o m \o e : n \in 0..MaxPad, m \in Mids, e \in Exts}

\* no call of acceptable_name in the other specifications
NameParked == arg_name = <<>> /\ verdict = "-"

\* no monitor of its own in the other specifications
MonParked == mon = [max_query_history |-> 0, query_history |-> <<>>, recorded |-> 0]

\* module load: _global_pool = None, _pool_lock free, no call running.
\* inst: _global_pool, 0 for None, else the n-th ConnectionPool constructed;
\* made: pools constructed; closing: the pools whose close_all has started;
\* closed_called: close_global_pool has been called;
\* gt[t]: thread t's position, whether it found _global_pool None at line
\* 163, what its last get_global_pool returned and whether close_all had
\* started on that pool when it was returned
GpStart ==
    [inst |-> 0, made |-> 0, closing |-> {}, plock |-> "none", closed_called |-> FALSE,
     gt |-> [t \in Callers |-> [pc |-> "idle", saw_none |-> FALSE, result |-> 0,
                                stale |-> FALSE]]]

AuxParked == NameParked /\ MonParked /\ gp = GpStart

\* DB.acceptable_name(name): returns True or raises ValueError
AcceptableName ==
    /\ verdict = "-"
    /\ verdict' = IF acceptable_name(arg_name) THEN "True" ELSE "ValueError"
    /\ UNCHANGED <<arg_name, mon, gp, poolVars, objVars, cliVars>>

\* path.split('/')[-1]
RECURSIVE LastSlash(_, _)
LastSlash(s, i) == IF i = 0 THEN 0 ELSE IF s[i] = "/" THEN i ELSE LastSlash(s, i - 1)

BaseName(s) == SubSeq(s, LastSlash(s, Len(s)) + 1, Len(s))

\* DuckDB.__init__(path, name) with name = path.split('/')[-1]: no ValueError
DuckDBInitOk(p) == EndsWithDuckdb(Chars(p)) /\ acceptable_name(BaseName(Chars(p)))

-----------------------------------------------------------------------------
\* udbcore/ddb.py: DuckDB.connect / DuckDB.disconnect over the engine

Least(S) == CHOOSE x \in S : \A y \in S : x <= y

\* The objects something still refers to: the pool's entries and the
\* results in the hands of a running call.
RefObjs ==
    {pool[i].duckdb : i \in 1..Len(pool)} \cup {th[t].result : t \in Callers} \cup ghost.held

FreeObjs(p) == {n \in 1..MaxGen : <<p, n>> \notin RefObjs}

\* DuckDB(path, name) yields an object distinct from every live one
FreshObj(p) == <<p, Least(FreeObjs(p))>>

hopen == DOMAIN sess

\* The handles something still refers to: the open ones and the ones a
\* client's locals or the history keep.
RefHandles == hopen \cup cl.handles \cup ghost.handles

FreeHandles(o) == {k \in 1..MaxGen : <<o[1], o[2], k>> \notin RefHandles}

\* duckdb.connect(path) yields a handle distinct from every live one
FreshHandle(o) == <<o[1], o[2], Least(FreeHandles(o))>>

NewSession == [txn |-> "none", pending |-> {}]

\* f with the key k mapped to v (k may be new)
Put(f, k, v) == [x \in DOMAIN f \cup {k} |-> IF x = k THEN v ELSE f[x]]

\* f without the keys in K
Drop(f, K) == [x \in DOMAIN f \ K |-> f[x]]

\* duckdb.connect(path) succeeded for object o: a fresh handle, loaded = True
ConnectFresh(o) ==
    /\ FreeHandles(o) # {}
    /\ conn' = [conn EXCEPT ![o] = FreshHandle(o)]
    /\ loaded' = [loaded EXCEPT ![o] = TRUE]
    /\ sess' = Put(sess, FreshHandle(o), NewSession)

\* The handles DuckDB.disconnect closes for the objects in S: only a loaded
\* object with a conn closes anything.
HandlesOf(S) == {conn[o] : o \in {x \in S : loaded[x] /\ conn[x] # None}}

\* DuckDB.disconnect on every object of S.  conn.close() ends the session:
\* the engine drops an open transaction's uncommitted rows.
DisconnectSet(S) ==
    /\ sess' = Drop(sess, HandlesOf(S))
    /\ loaded' = [o \in ObjIds |-> IF o \in S /\ loaded[o] /\ conn[o] # None THEN FALSE ELSE loaded[o]]
    /\ conn' = [o \in ObjIds |-> IF o \in S /\ loaded[o] /\ conn[o] # None THEN None ELSE conn[o]]

-----------------------------------------------------------------------------
\* udbcore/connection_pool.py: ConnectionPool

PoolKeys(pl) == {pl[i].path : i \in 1..Len(pl)}

IndexOf(pl, p) == CHOOSE i \in 1..Len(pl) : pl[i].path = p

EntryOf(pl, p) == pl[IndexOf(pl, p)]

RemoveFirst(pl, p) == Tail(pl)

\* del self._pool[path]
RemoveKey(pl, p) == SelectSeq(pl, LAMBDA e : e.path # p)

TouchEntryStale(pl, p, t) == pl

TouchAllEntries(pl, p, t) == [i \in 1..Len(pl) |-> [pl[i] EXCEPT !.last_used = t]]

\* self._pool[path]['last_used'] = time.time()
TouchEntry(pl, p, t) ==
    [i \in 1..Len(pl) |-> IF pl[i].path = p THEN [pl[i] EXCEPT !.last_used = t] ELSE pl[i]]

\* self._pool[path] = {'duckdb': o, 'last_used': t}: a dict keeps one value
\* per key, a new key goes last
InsertEntry(pl, p, o, t) ==
    IF p \in PoolKeys(pl)
    THEN [i \in 1..Len(pl) |-> IF pl[i].path = p
                                THEN [path |-> p, duckdb |-> o, last_used |-> t]
                                ELSE pl[i]]
    ELSE Append(pl, [path |-> p, duckdb |-> o, last_used |-> t])

PoolNotFullOffByOne(pl, max) == Len(pl) <= max

\* len(self._pool) < self.max_connections
PoolNotFull(pl, max) == Len(pl) < max

LruPathFifo(pl) == pl[1].path

\* min(self._pool.keys(), key=lambda p: self._pool[p]['last_used']):
\* the first key, in dict order, among those with the least last_used
LruPath(pl) ==
    LET i == CHOOSE k \in 1..Len(pl) :
                 /\ \A j \in 1..Len(pl) : pl[k].last_used <= pl[j].last_used
                 /\ \A j \in 1..(k - 1) : pl[j].last_used > pl[k].last_used
    IN  pl[i].path

IsIdleInclusive(e, current_time, timeout) == current_time - e.last_used >= timeout

\* the reaper's test: current_time - last_used > connection_timeout
IsIdle(e, current_time, timeout) == current_time - e.last_used > timeout

\* get_pool_stats
PoolStats(pl, max) ==
    [active_connections |-> Len(pl),
     max_connections    |-> max,
     connection_paths   |-> [i \in 1..Len(pl) |-> pl[i].path],
     last_used_times    |-> [p \in PoolKeys(pl) |-> EntryOf(pl, p).last_used]]

RaisesWhenFull(pl) == TRUE

\* min() of an empty sequence raises ValueError
MinRaises(pl) == Len(pl) = 0

PartialEntry(pl, p) == Append(pl, [path |-> p, duckdb |-> DbObj, last_used |-> 0])

\* the map after DuckDB(path, name) or connect() raised: nothing was stored
AfterOpenFailure(pl, p) == pl

FirstPooled(pl) == IF Len(pl) = 0 THEN {} ELSE {pl[1].duckdb}

\* for connection_info in self._pool.values(): the objects close_all closes
AllPooled(pl) == {pl[i].duckdb : i \in 1..Len(pl)}

LockFreeAlways(t) == TRUE

\* with self._lock: the RLock is free, or already held by this thread
LockFree(t) == lock = NoThread \/ lock = t

IdleTh == [pc |-> "idle", op |-> "-", path |-> "-", pre |-> <<>>, preH |-> {},
           result |-> None, exc |-> "none", evicted |-> "-", tread |-> 0]

\* A caller enters an operation and takes the lock; pre keeps what it found.
Enter(t, op, p, pc0) ==
    /\ th[t].pc = "idle"
    /\ LockFree(t)
    /\ lock' = t
    /\ th' = [th EXCEPT ![t] = [IdleTh EXCEPT !.pc = pc0, !.op = op, !.path = p,
                                              !.pre = pool, !.preH = hopen]]

\* get_connection, lines 62-65
GetEnter(t, p) ==
    /\ Enter(t, "get", p, "get_body")
    /\ UNCHANGED <<max_connections, connection_timeout, pool, running, now, rpc, rtime>>
    /\ UNCHANGED auxVars
    /\ UNCHANGED <<objVars, cliVars>>

\* get_connection, lines 66-91: the hit, the capacity test, the eviction
GetBody(t) ==
    /\ th[t].pc = "get_body"
    /\ LET p == th[t].path IN
       IF p \in PoolKeys(pool) THEN
          /\ pool' = TouchEntry(pool, p, now)
          /\ th' = [th EXCEPT ![t].pc = "get_exit", ![t].tread = now,
                                ![t].result = EntryOf(pool, p).duckdb]
          /\ UNCHANGED objVars
       ELSE IF PoolNotFull(pool, max_connections) THEN
          /\ th' = [th EXCEPT ![t].pc = "get_open"]
          /\ UNCHANGED <<pool, objVars>>
       ELSE IF MinRaises(pool) THEN  \* min() of an empty sequence: ValueError
          /\ th' = [th EXCEPT ![t].pc = "get_exit", ![t].exc = "ValueError"]
          /\ UNCHANGED <<pool, objVars>>
       ELSE
          LET lru_path == LruPath(pool) IN
          /\ DisconnectSet({EntryOf(pool, lru_path).duckdb})
          /\ pool' = RemoveKey(pool, lru_path)
          /\ th' = [th EXCEPT ![t].pc = "get_open", ![t].evicted = lru_path]
          /\ UNCHANGED store
    /\ UNCHANGED <<max_connections, connection_timeout, lock, running, now, rpc, rtime>>
    /\ UNCHANGED auxVars
    /\ UNCHANGED cliVars

\* get_connection, lines 73-79 and 94-100: DuckDB(path, name), connect(), insert
GetOpen(t) ==
    /\ th[t].pc = "get_open"
    /\ LET p == th[t].path IN
       \/ /\ ~DuckDBInitOk(p)
          /\ th' = [th EXCEPT ![t].pc = "get_exit", ![t].exc = "ValueError"]
          /\ UNCHANGED <<pool, objVars>>
       \/ /\ DuckDBInitOk(p)      \* duckdb.connect raises
          /\ th' = [th EXCEPT ![t].pc = "get_exit", ![t].exc = "OpenError"]
          /\ pool' = AfterOpenFailure(pool, p)
          /\ UNCHANGED objVars
       \/ /\ DuckDBInitOk(p)
          /\ FreeObjs(p) # {}
          /\ ConnectFresh(FreshObj(p))
          /\ pool' = InsertEntry(pool, p, FreshObj(p), now)
          /\ th' = [th EXCEPT ![t].pc = "get_exit", ![t].tread = now,
                                ![t].result = FreshObj(p)]
          /\ UNCHANGED store
    /\ UNCHANGED <<max_connections, connection_timeout, lock, running, now, rpc, rtime>>
    /\ UNCHANGED auxVars
    /\ UNCHANGED cliVars

\* return_connection
ReturnEnter(t, p) ==
    /\ Enter(t, "return", p, "ret_body")
    /\ UNCHANGED <<max_connections, connection_timeout, pool, running, now, rpc, rtime>>
    /\ UNCHANGED auxVars
    /\ UNCHANGED <<objVars, cliVars>>

ReturnBody(t) ==
    /\ th[t].pc = "ret_body"
    /\ pool' = IF th[t].path \in PoolKeys(pool) THEN TouchEntry(pool, th[t].path, now) ELSE pool
    /\ th' = [th EXCEPT ![t].pc = "ret_exit", ![t].tread = now]
    /\ UNCHANGED <<max_connections, connection_timeout, lock, running, now, rpc, rtime>>
    /\ UNCHANGED auxVars
    /\ UNCHANGED <<objVars, cliVars>>

\* close_connection
CloseEnter(t, p) ==
    /\ Enter(t, "close", p, "cl_body")
    /\ UNCHANGED <<max_connections, connection_timeout, pool, running, now, rpc, rtime>>
    /\ UNCHANGED auxVars
    /\ UNCHANGED <<objVars, cliVars>>

CloseBody(t) ==
    /\ th[t].pc = "cl_body"
    /\ IF th[t].path \in PoolKeys(pool)
       THEN /\ DisconnectSet({EntryOf(pool, th[t].path).duckdb})
            /\ pool' = RemoveKey(pool, th[t].path)
            /\ UNCHANGED store
       ELSE UNCHANGED <<pool, objVars>>
    /\ th' = [th EXCEPT ![t].pc = "cl_exit"]
    /\ UNCHANGED <<max_connections, connection_timeout, lock, running, now, rpc, rtime>>
    /\ UNCHANGED auxVars
    /\ UNCHANGED cliVars

\* get_pool_stats
StatsEnter(t) ==
    /\ Enter(t, "stats", "-", "st_body")
    /\ UNCHANGED <<max_connections, connection_timeout, pool, running, now, rpc, rtime>>
    /\ UNCHANGED auxVars
    /\ UNCHANGED <<objVars, cliVars>>

StatsBody(t) ==
    /\ th[t].pc = "st_body"
    /\ th' = [th EXCEPT ![t].pc = "st_exit"]
    /\ UNCHANGED <<max_connections, connection_timeout, pool, lock, running, now, rpc, rtime>>
    /\ UNCHANGED auxVars
    /\ UNCHANGED <<objVars, cliVars>>

\* close_all, lines 128-130: clear the flag, then join(timeout=5)
CloseAllStart(t) ==
    /\ th[t].pc = "idle"
    /\ running' = FALSE
    /\ th' = [th EXCEPT ![t] = [IdleTh EXCEPT !.pc = "ca_join", !.op = "close_all"]]
    /\ UNCHANGED <<max_connections, connection_timeout, pool, lock, now, rpc, rtime>>
    /\ UNCHANGED auxVars
    /\ UNCHANGED <<objVars, cliVars>>

\* close_all, line 132: the join returned (the reaper ended, or 5 s passed)
CloseAllLock(t) ==
    /\ th[t].pc = "ca_join"
    /\ LockFree(t)
    /\ lock' = t
    /\ th' = [th EXCEPT ![t].pc = "ca_body", ![t].pre = pool, ![t].preH = hopen]
    /\ UNCHANGED <<max_connections, connection_timeout, pool, running, now, rpc, rtime>>
    /\ UNCHANGED auxVars
    /\ UNCHANGED <<objVars, cliVars>>

\* close_all, lines 133-138
CloseAllBody(t) ==
    /\ th[t].pc = "ca_body"
    /\ DisconnectSet(AllPooled(pool))
    /\ pool' = <<>>
    /\ th' = [th EXCEPT ![t].pc = "ca_exit"]
    /\ ghost' = [ghost EXCEPT !.shutdown = TRUE]
    /\ UNCHANGED store
    /\ UNCHANGED <<max_connections, connection_timeout, lock, running, now, rpc, rtime>>
    /\ UNCHANGED auxVars
    /\ UNCHANGED <<retry_attempts, has_monitor, in_transaction, cl, nextStmt>>

ExitPcs == {"get_exit", "ret_exit", "cl_exit", "st_exit", "ca_exit"}

\* leaving the with-block: the lock is released and the call returns or raises
Release(t) ==
    /\ th[t].pc \in ExitPcs
    /\ lock' = NoThread
    /\ th' = [th EXCEPT ![t] = IdleTh]
    /\ UNCHANGED <<max_connections, connection_timeout, pool, running, now, rpc, rtime>>
    /\ UNCHANGED auxVars
    /\ UNCHANGED <<objVars, cliVars>>

ReaperCheckForever ==
    /\ rpc = "check"
    /\ rpc' = "sleep"
    /\ UNCHANGED <<max_connections, connection_timeout, pool, lock, running, now, th, rtime>>
    /\ UNCHANGED auxVars
    /\ UNCHANGED <<objVars, cliVars>>

\* _cleanup_idle_connections, line 38: while self._running
ReaperCheck ==
    /\ rpc = "check"
    /\ rpc' = IF running THEN "sleep" ELSE "done"
    /\ UNCHANGED <<max_connections, connection_timeout, pool, lock, running, now, th, rtime>>
    /\ UNCHANGED auxVars
    /\ UNCHANGED <<objVars, cliVars>>

CurrentTimeStale(n) == 0

\* line 40: current_time = time.time(), read anew in every pass
CurrentTime(n) == n

\* lines 39-40: time.sleep(30); current_time = time.time()
ReaperWake ==
    /\ rpc = "sleep"
    /\ rtime' = CurrentTime(now)
    /\ rpc' = "lock"
    /\ UNCHANGED <<max_connections, connection_timeout, pool, lock, running, now, th>>
    /\ UNCHANGED auxVars
    /\ UNCHANGED <<objVars, cliVars>>

\* line 41: with self._lock
ReaperLock ==
    /\ rpc = "lock"
    /\ LockFree(Reaper)
    /\ lock' = Reaper
    /\ rpc' = "body"
    /\ ghost' = [ghost EXCEPT !.rpre = pool, !.rpreH = hopen]
    /\ UNCHANGED <<max_connections, connection_timeout, pool, running, now, th, rtime>>
    /\ UNCHANGED auxVars
    /\ UNCHANGED <<retry_attempts, has_monitor, in_transaction, cl, nextStmt>>
    /\ UNCHANGED objVars

\* lines 42-52: disconnect and delete the idle entries
ReaperPass ==
    /\ rpc = "body"
    /\ LET idle == {i \in 1..Len(pool) : IsIdle(pool[i], rtime, connection_timeout)} IN
       /\ DisconnectSet({pool[i].duckdb : i \in idle})
       /\ pool' = SelectSeq(pool, LAMBDA e : ~IsIdle(e, rtime, connection_timeout))
    /\ rpc' = "exit"
    /\ ghost' = [ghost EXCEPT !.late = IF running THEN @ ELSE @ + 1]
    /\ UNCHANGED store
    /\ UNCHANGED <<max_connections, connection_timeout, lock, running, now, th, rtime>>
    /\ UNCHANGED auxVars
    /\ UNCHANGED <<retry_attempts, has_monitor, in_transaction, cl, nextStmt>>

ReaperRelease ==
    /\ rpc = "exit"
    /\ lock' = NoThread
    /\ rpc' = "check"
    /\ ghost' = [ghost EXCEPT !.rpre = <<>>, !.rpreH = {}]
    /\ UNCHANGED <<max_connections, connection_timeout, pool, running, now, th, rtime>>
    /\ UNCHANGED auxVars
    /\ UNCHANGED <<retry_attempts, has_monitor, in_transaction, cl, nextStmt>>
    /\ UNCHANGED objVars

\* the clock advances
Tick ==
    /\ now < MaxTime
    /\ now' = now + 1
    /\ UNCHANGED <<max_connections, connection_timeout, pool, lock, running, th, rpc, rtime>>
    /\ UNCHANGED auxVars
    /\ UNCHANGED <<objVars, cliVars>>

ObjInit ==
    /\ loaded = [o \in ObjIds |-> FALSE]
    /\ conn = [o \in ObjIds |-> None]
    /\ sess = <<>>
    /\ store = {}

\* the outcome of no call
NoLast == [op |-> "-", status |-> "-", err |-> None, result |-> None, calls |-> 0,
           log |-> <<>>, slept |-> 0, recs |-> <<>>, body_err |-> None, queries |-> <<>>]

\* the client outside any call: no scope open, no locals
CliIdle == [pc |-> "idle", scope |-> "none", op |-> "-", stmt |-> 0, attempt |-> 0,
            calls |-> 0, slept |-> 0, last_exception |-> None, log |-> <<>>,
            recs |-> <<>>, exc |-> None, handles |-> {}, queries |-> <<>>,
            results |-> <<>>, last |-> NoLast]

\* begin_handle: the handle BEGIN TRANSACTION succeeded on, while the
\* coordinator is Active; off_handle: a statement ran on another handle since;
\* ctl: the control statements of the running coordinator call or scope;
\* pre: what the database held when that call or scope was entered;
\* warn: the error the last rollback() logged and swallowed;
\* at_begin: the committed rows when the coordinator became Active;
\* shutdown: a close_all of the pool has cleared the map;
\* rpre, rpreH: the map and the open handles the reaper found when it took
\* the lock for the pass it is in;
\* held: the objects get_connection returned, which their callers still hold;
\* late: the reaper passes made with _running already cleared
GhostInit == [handles |-> {}, begin_handle |-> None, off_handle |-> FALSE,
              ctl |-> <<>>, pre |-> {}, warn |-> None, at_begin |-> {},
              shutdown |-> FALSE, rpre |-> <<>>, rpreH |-> {},
              held |-> {}, late |-> 0]

\* no client in the pool's specification
CliParked ==
    /\ retry_attempts = 0
    /\ has_monitor = FALSE
    /\ in_transaction = FALSE
    /\ cl = CliIdle
    /\ nextStmt = 1
    /\ ghost = GhostInit

\* ConnectionPool.__init__: an empty pool, the reaper started
PoolInit ==
    /\ max_connections \in 0..MaxConn
    /\ connection_timeout \in Timeouts
    /\ pool = <<>>
    /\ lock = NoThread
    /\ running = TRUE
    /\ now = 0
    /\ th = [t \in Callers |-> IdleTh]
    /\ rpc = "check"
    /\ rtime = 0

PoolNext ==
    \/ \E t \in Callers, p \in Paths : GetEnter(t, p)
    \/ \E t \in Callers : GetBody(t)
    \/ \E t \in Callers : GetOpen(t)
    \/ \E t \in Callers, p \in GoodPaths : ReturnEnter(t, p)
    \/ \E t \in Callers : ReturnBody(t)
    \/ \E t \in Callers, p \in GoodPaths : CloseEnter(t, p)
    \/ \E t \in Callers : CloseBody(t)
    \/ \E t \in Callers : StatsEnter(t)
    \/ \E t \in Callers : StatsBody(t)
    \/ \E t \in Callers : CloseAllStart(t)
    \/ \E t \in Callers : CloseAllLock(t)
    \/ \E t \in Callers : CloseAllBody(t)
    \/ \E t \in Callers : Release(t)
    \/ ReaperCheck
    \/ ReaperWake
    \/ ReaperLock
    \/ ReaperPass
    \/ ReaperRelease
    \/ Tick

PoolSpecInit == PoolInit /\ ObjInit /\ CliParked /\ AuxParked

\* the object was handed out by a get_connection that has returned
HandedOut(o) == o \in AllPooled(pool) /\ \A t \in Callers : th[t].result # o

\* One caller that gets and returns connections and may shut the pool down,
\* beside the reaper and the clock.
LiveCaller == "t1"

\* the keys that caller uses
LivePaths == {"/d/a.duckdb", "/d/b.duckdb"}

PoolLiveNext ==
    \/ \E p \in LivePaths : GetEnter(LiveCaller, p)
    \/ GetBody(LiveCaller)
    \/ GetOpen(LiveCaller)
    \/ \E p \in LivePaths : ReturnEnter(LiveCaller, p)
    \/ ReturnBody(LiveCaller)
    \/ CloseAllStart(LiveCaller)
    \/ CloseAllLock(LiveCaller)
    \/ CloseAllBody(LiveCaller)
    \/ Release(LiveCaller)
    \/ ReaperCheck
    \/ ReaperWake
    \/ ReaperLock
    \/ ReaperPass
    \/ ReaperRelease
    \/ Tick

\* The threads keep being scheduled: the reaper takes its next step, it gets
\* the lock if the lock is free again and again, a caller inside a call
\* goes on to its end, and the clock advances.
PoolFairness ==
    /\ WF_vars(ReaperCheck \/ ReaperWake \/ ReaperPass \/ ReaperRelease)
    /\ SF_vars(ReaperLock)
    /\ WF_vars(GetBody(LiveCaller) \/ GetOpen(LiveCaller) \/ ReturnBody(LiveCaller)
                 \/ CloseAllLock(LiveCaller) \/ CloseAllBody(LiveCaller)
                 \/ Release(LiveCaller))
    /\ WF_vars(Tick)

PoolLiveSpec == PoolSpecInit /\ [][PoolLiveNext]_vars /\ PoolFairness

\* A holder of a pooled object runs a query on it that fails on every
\* attempt: _execute_with_retry disconnects the object after each failure
\* (ddb.py 137-145) and raises.  The pool's lock is not involved.
QueryExhausts(o) ==
    /\ HandedOut(o)
    /\ loaded[o]
    /\ DisconnectSet({o})
    /\ UNCHANGED store
    /\ UNCHANGED <<poolVars, cliVars, auxVars>>

\* A holder of a pooled object runs a query that succeeds: run_query calls
\* self.connect() first, which reopens an object that is not loaded.
QueryReturns(o) ==
    /\ HandedOut(o)
    /\ ~loaded[o]
    /\ ConnectFresh(o)
    /\ UNCHANGED store
    /\ UNCHANGED <<poolVars, cliVars, auxVars>>

PoolUseNext ==
    \/ \E t \in Callers, p \in GoodPaths : GetEnter(t, p)
    \/ \E t \in Callers : GetBody(t)
    \/ \E t \in Callers : GetOpen(t)
    \/ \E t \in Callers : Release(t)
    \/ \E o \in ObjIds : QueryExhausts(o)
    \/ \E o \in ObjIds : QueryReturns(o)

PoolUseSpec == PoolSpecInit /\ [][PoolUseNext]_vars

\* the objects the callers keep at a time; a caller that has as many lets
\* go of what it is given next
MaxHeld == 2

\* get_connection returns: the lock is released and the caller keeps the
\* object it was given
ReleaseKeep(t) ==
    /\ th[t].pc = "get_exit"
    /\ lock' = NoThread
    /\ th' = [th EXCEPT ![t] = IdleTh]
    /\ ghost' = [ghost EXCEPT !.held =
                    IF th[t].result = None \/ Cardinality(@ \cup {th[t].result}) > MaxHeld
                    THEN @ ELSE @ \cup {th[t].result}]
    /\ UNCHANGED <<max_connections, connection_timeout, pool, running, now, rpc, rtime>>
    /\ UNCHANGED <<retry_attempts, has_monitor, in_transaction, cl, nextStmt>>
    /\ UNCHANGED <<objVars, auxVars>>

\* A holder runs a query on its object: run_query calls self.connect()
\* (ddb.py 61, 34-36), which opens a connection if the object has none,
\* whether or not the pool still has the object.
HolderQuery(o) ==
    /\ o \in ghost.held
    /\ ~loaded[o]
    /\ ConnectFresh(o)
    /\ UNCHANGED store
    /\ UNCHANGED <<poolVars, cliVars, auxVars>>

\* A holder starts a transaction on its object: TransactionManager(o)
\* .begin_transaction(), BEGIN TRANSACTION on the object's connection
\* (transactions.py 30-32).  The coordinator is Active from here on.
HolderBegin(o) ==
    /\ o \in ghost.held
    /\ loaded[o] /\ conn[o] \in DOMAIN sess
    /\ sess[conn[o]].txn = "none"
    /\ sess' = [sess EXCEPT ![conn[o]].txn = "active"]
    /\ UNCHANGED <<loaded, conn, store>>
    /\ UNCHANGED <<poolVars, cliVars, auxVars>>

PoolHoldNext ==
    \/ \E p \in LivePaths : GetEnter(LiveCaller, p)
    \/ GetBody(LiveCaller)
    \/ GetOpen(LiveCaller)
    \/ ReleaseKeep(LiveCaller)
    \/ \E o \in ObjIds : HolderQuery(o)
    \/ \E o \in ObjIds : HolderBegin(o)
    \/ ReaperCheck
    \/ ReaperWake
    \/ ReaperLock
    \/ ReaperPass
    \/ ReaperRelease
    \/ Tick

PoolHoldSpec == PoolSpecInit /\ [][PoolHoldNext]_vars

PoolSpec == PoolSpecInit /\ [][PoolNext]_vars

-----------------------------------------------------------------------------
\* Properties of the pool

Entries(pl) == {pl[i] : i \in 1..Len(pl)}

\* the object's connection is closed: not loaded, no open handle of it
ObjClosed(o) == ~loaded[o] /\ \A h \in hopen : <<h[1], h[2]>> # o

\* the object's connection is open
ObjOpen(o) == loaded[o] /\ conn[o] \in hopen

\* C1: after any interleaving of get_connection, return_connection,
\* close_connection, close_all and reaper passes the pool map holds at most
\* max_connections entries and at most one entry per path key.
C1_PoolBounded ==
    /\ Len(pool) <= max_connections
    /\ \A i, j \in 1..Len(pool) : pool[i].path = pool[j].path => i = j

\* C1 witness: a get has just evicted an entry of a full pool of the largest
\* capacity and inserted its own, while the other caller is inside close_all
\* and the reaper has begun a pass.
C1_Witness ==
    /\ max_connections = MaxConn
    /\ Len(pool) = MaxConn
    /\ \E t \in Callers : th[t].pc = "get_exit" /\ th[t].evicted # "-" /\ th[t].exc = "none"
    /\ \E t \in Callers : th[t].pc = "ca_join"
    /\ rpc = "lock"

\* a get for an absent key that found the pool at its (positive) capacity
\* and is about to leave the lock
AtCapacityMiss(t) ==
    /\ th[t].pc = "get_exit"
    /\ max_connections >= 1
    /\ Len(th[t].pre) = max_connections
    /\ th[t].path \notin PoolKeys(th[t].pre)

\* exactly one entry left the map, one of least last_used; its connection
\* is closed and its key is not listed in the stats; the others stayed
EvictedLru(t) ==
    \E e \in Entries(th[t].pre) :
        /\ \A f \in Entries(th[t].pre) : e.last_used <= f.last_used
        /\ ObjClosed(e.duckdb)
        /\ Entries(pool) \cap Entries(th[t].pre) = Entries(th[t].pre) \ {e}
        /\ LET keys == PoolStats(pool, max_connections).connection_paths
           IN  \A i \in 1..Len(keys) : keys[i] # e.path

\* the new key is in the map with the returned, open object; the count is
\* max_connections again
InsertedNew(t) ==
    /\ th[t].result # None
    /\ ObjOpen(th[t].result)
    /\ Entries(pool) \ Entries(th[t].pre) =
          {[path |-> th[t].path, duckdb |-> th[t].result, last_used |-> th[t].tread]}
    /\ Len(pool) = max_connections
    /\ PoolStats(pool, max_connections).active_connections = max_connections

\* every get hit and every return_connection of a present key refreshes
\* last_used with the time it read
Refreshed(t) ==
    (th[t].pc \in {"get_exit", "ret_exit"} /\ th[t].path \in PoolKeys(th[t].pre))
        => EntryOf(pool, th[t].path).last_used = th[t].tread

\* C2 as claimed: a get for an absent key at capacity removes exactly the
\* least recently used entry, closes it, inserts the new key and leaves the
\* count at max_connections, the evicted key gone from the stats.
C2_Original ==
    \A t \in Callers : AtCapacityMiss(t) => (EvictedLru(t) /\ InsertedNew(t) /\ Refreshed(t))

\* C2 as amended: the eviction happens as claimed in every case; the new key
\* is inserted and the count is max_connections again when the new
\* connection was constructed and opened, and when that raised the key is
\* not inserted and the count is max_connections - 1.
C2_EvictsLru ==
    \A t \in Callers :
        /\ Refreshed(t)
        /\ AtCapacityMiss(t) =>
              /\ EvictedLru(t)
              /\ th[t].exc = "none" => InsertedNew(t)
              /\ th[t].exc # "none" =>
                    /\ th[t].path \notin PoolKeys(pool)
                    /\ Len(pool) = max_connections - 1

\* C2 witness: at capacity 2 the entry inserted first was refreshed later,
\* so the entry evicted is the one inserted second.
C2_Witness ==
    \E t \in Callers :
        /\ AtCapacityMiss(t)
        /\ th[t].exc = "none"
        /\ Len(th[t].pre) = 2
        /\ th[t].pre[1].last_used > th[t].pre[2].last_used
        /\ th[t].evicted = th[t].pre[2].path

\* C3: a get of a key already in the pool returns the object the entry
\* holds, opens and closes nothing, adds and removes no entry and refreshes
\* that entry's last_used; after any successful get the map holds the
\* returned object under the key, so a second get returns it again.
C3_HitReturnsSame ==
    \A t \in Callers :
        /\ (th[t].pc = "get_exit" /\ th[t].path \in PoolKeys(th[t].pre)) =>
              /\ th[t].exc = "none"
              /\ th[t].result = EntryOf(th[t].pre, th[t].path).duckdb
              /\ hopen = th[t].preH
              /\ Len(pool) = Len(th[t].pre)
              /\ \A i \in 1..Len(pool) :
                    /\ pool[i].path = th[t].pre[i].path
                    /\ pool[i].duckdb = th[t].pre[i].duckdb
                    /\ pool[i].last_used =
                          IF pool[i].path = th[t].path THEN th[t].tread
                          ELSE th[t].pre[i].last_used
        /\ (th[t].pc = "get_exit" /\ th[t].exc = "none") =>
              /\ th[t].path \in PoolKeys(pool)
              /\ EntryOf(pool, th[t].path).duckdb = th[t].result

\* C3 witness: a hit on one of two entries, at a later time than its last use.
C3_Witness ==
    \E t \in Callers :
        /\ th[t].pc = "get_exit"
        /\ th[t].path \in PoolKeys(th[t].pre)
        /\ Len(pool) = 2
        /\ th[t].tread > EntryOf(th[t].pre, th[t].path).last_used

BodyPcs == {"get_body", "ret_body", "cl_body", "st_body", "ca_body"}

\* between taking and releasing the pool lock
InMapAccess(t) == th[t].pc \in BodyPcs \cup ExitPcs \cup {"get_open"}

ReaperInMapAccess == rpc \in {"body", "exit"}

Accessors == {t \in Callers : InMapAccess(t)} \cup (IF ReaperInMapAccess THEN {Reaper} ELSE {})

\* C4: get_connection, return_connection, close_connection, the clearing part
\* of close_all, get_pool_stats and each reaper pass access the map under the
\* one pool lock: never two threads inside their map access at once, and a
\* thread that took the lock finds the map as it was when it took it.
C4_OneAccessor ==
    /\ Cardinality(Accessors) <= 1
    /\ \A t \in Accessors : lock = t
    /\ \A t \in Callers : th[t].pc \in BodyPcs => pool = th[t].pre

\* C4 witness: one caller is half-way through an eviction (the entry deleted,
\* the new one not yet inserted) while the other caller waits for the lock
\* in close_all and the reaper waits for it too.
C4_Witness ==
    /\ \E t \in Callers : th[t].pc = "get_open" /\ th[t].evicted # "-"
    /\ \E t \in Callers : th[t].pc = "ca_join"
    /\ rpc = "lock"

-----------------------------------------------------------------------------
\* The embedded engine behind conn.execute (duckdb), as the wrapper uses it

MaxQueries == 3

\* a statement can run on handle h: the handle is open and its transaction
\* is not aborted
CanRun(ss, h) == h \in DOMAIN ss /\ ss[h].txn # "aborted"

\* a statement writing row r succeeded on h: into the open transaction, or
\* (autocommit) straight into the database
StmtOkSess(ss, h, r) ==
    IF ss[h].txn = "active" THEN [ss EXCEPT ![h].pending = @ \cup {r}] ELSE ss

StmtOkStore(ss, st, h, r) == IF ss[h].txn = "active" THEN st ELSE st \cup {r}

\* a statement failed on h: the engine may abort the open transaction
StmtFailSess(ss, h, inval) ==
    IF h \in DOMAIN ss /\ ss[h].txn = "active" /\ inval
    THEN [ss EXCEPT ![h].txn = "aborted"] ELSE ss

\* conn.execute("BEGIN TRANSACTION;" | "COMMIT;" | "ROLLBACK;") on h.
\* eng_ok: the engine can complete a COMMIT of an open transaction.
CtlOk(ss, h, stmt, eng_ok) ==
    /\ h \in DOMAIN ss
    /\ CASE stmt = "BEGIN"    -> ss[h].txn = "none"
         [] stmt = "COMMIT"   -> ss[h].txn = "active" /\ eng_ok
         [] stmt = "ROLLBACK" -> ss[h].txn # "none"

CtlSess(ss, h, stmt, eng_ok) ==
    IF h \notin DOMAIN ss THEN ss
    ELSE CASE stmt = "BEGIN" ->
                IF ss[h].txn = "none" THEN [ss EXCEPT ![h].txn = "active"] ELSE ss
           [] stmt = "COMMIT" ->
                IF ss[h].txn = "aborted" THEN ss ELSE [ss EXCEPT ![h] = NewSession]
           [] stmt = "ROLLBACK" ->
                [ss EXCEPT ![h] = NewSession]

CtlStore(ss, st, h, stmt, eng_ok) ==
    IF stmt = "COMMIT" /\ CtlOk(ss, h, stmt, eng_ok) THEN st \cup ss[h].pending ELSE st

\* DuckDB.connect() on o; open_ok: duckdb.connect(path) does not raise.
\* Yields whether it returned, the handle it returned and the sessions after.
TryConnect(o, open_ok) ==
    IF loaded[o] THEN [ok |-> TRUE, h |-> conn[o], sess |-> sess]
    ELSE IF open_ok /\ FreeHandles(o) # {}
         THEN [ok |-> TRUE, h |-> FreshHandle(o), sess |-> Put(sess, FreshHandle(o), NewSession)]
         ELSE [ok |-> FALSE, h |-> None, sess |-> sess]

\* the object's fields after a connect() with result c
SetConn(o, c) ==
    /\ loaded' = [loaded EXCEPT ![o] = (loaded[o] \/ c.ok)]
    /\ conn' = [conn EXCEPT ![o] = IF c.ok THEN c.h ELSE conn[o]]

\* duckdb.connect(path) is called, and can raise, only when the object is
\* not loaded
OpenOutcomes == IF loaded[DbObj] THEN {TRUE} ELSE BOOLEAN

\* what a query through the object sees: the committed rows and the rows of
\* its session's open transaction
Visible ==
    store \cup (IF loaded[DbObj] /\ conn[DbObj] \in DOMAIN sess
                THEN sess[conn[DbObj]].pending ELSE {})

-----------------------------------------------------------------------------
\* udbcore/ddb.py: execute_non_query / run_query and _execute_with_retry

\* the handle in the local variable conn of an open DuckDB.transaction()
\* scope: it outlives the calls made in the body
Held(c) == IF c.scope = "db" THEN c.handles ELSE {}

\* how a call of the client ends: inside a scoped transaction a raise goes
\* to the scope's except clause
Raise(c, op, err) ==
    LET info == [NoLast EXCEPT !.op = op, !.status = "raised", !.err = err,
                               !.calls = c.calls, !.log = c.log, !.slept = c.slept,
                               !.recs = c.recs, !.queries = c.queries]
    IN  IF c.scope = "tm"
        THEN [CliIdle EXCEPT !.scope = "tm", !.pc = "tm_except", !.op = "body",
                             !.exc = err, !.last = info]
        ELSE IF c.scope = "db"
        THEN [CliIdle EXCEPT !.scope = "db", !.pc = "db_except", !.op = "body",
                             !.exc = err, !.handles = c.handles, !.last = info]
        ELSE [CliIdle EXCEPT !.last = info]

Return(c, op, res) ==
    [CliIdle EXCEPT !.scope = c.scope, !.handles = Held(c),
                    !.last = [NoLast EXCEPT !.op = op, !.status = "ok", !.result = res,
                                            !.calls = c.calls, !.log = c.log,
                                            !.slept = c.slept, !.recs = c.recs,
                                            !.queries = c.queries]]

\* the statements executed since BEGIN that ran on another handle
OffHandle(g, h) == [g EXCEPT !.off_handle = @ \/ (g.begin_handle # None /\ h # g.begin_handle)]

RetryMoreOneLess(attempt, R) == attempt < R - 1

RetryAtLeastOnce(attempt, R) == attempt < R \/ attempt = 0

\* for attempt in range(self.retry_attempts)
RetryMore(attempt, R) == attempt < R

ReturnAfterLoop(attempt, R) == attempt + 1 >= R

\* line 135: return result, inside the loop
ReturnNow(attempt, R) == TRUE

\* HealthMonitor.record_query through self._health_monitor, if any
Record(recs, tag) == IF has_monitor THEN Append(recs, tag) ELSE recs

AnyFailure(attempt, R) == TRUE

\* line 147, the else branch: not (attempt < self.retry_attempts - 1)
FinalFailure(attempt, R) == ~(attempt < R - 1)

BackoffConstant(n) == 1

\* line 148: time.sleep(self.retry_delay * (attempt + 1)), in units of
\* retry_delay; n is attempt + 1
Backoff(n) == n

NoDisconnect(c) == [loaded |-> c.ok, conn |-> c.h, sess |-> c.sess]

\* lines 141-145: self.disconnect() after an attempt with connect() result c
DisconnectAfter(c) == [loaded |-> FALSE, conn |-> None, sess |-> Drop(c.sess, {c.h})]

\* execute_non_query, lines 93-94: self.connect(), then the retry engine
RunStart ==
    /\ cl.pc = "idle"
    /\ nextStmt <= MaxStmts
    /\ \E open_ok \in OpenOutcomes :
         LET c == TryConnect(DbObj, open_ok) IN
         /\ SetConn(DbObj, c)
         /\ sess' = c.sess
         /\ cl' = IF c.ok
                  THEN [CliIdle EXCEPT !.scope = cl.scope, !.handles = Held(cl),
                                       !.pc = "rt_loop", !.op = "run",
                                       !.stmt = nextStmt]
                  ELSE Raise([cl EXCEPT !.calls = 0, !.log = <<>>, !.slept = 0, !.recs = <<>>],
                             "connect", <<"open", nextStmt, 0>>)
    /\ nextStmt' = nextStmt + 1
    /\ UNCHANGED <<store, retry_attempts, has_monitor, in_transaction, ghost>>
    /\ UNCHANGED poolVars
    /\ UNCHANGED auxVars

\* _execute_with_retry, lines 125-153: one pass of the loop body.
\* open_ok: duckdb.connect does not raise; op_ok: execute_func does not raise;
\* rec_ok: record_query, called inside the try, does not raise.
\* RecOutcomes: what the attached monitor's record_query can do.
AttemptWith(RecOutcomes) ==
    /\ cl.pc = "rt_loop"
    /\ RetryMore(cl.attempt, retry_attempts)
    /\ \E open_ok \in OpenOutcomes, op_ok \in BOOLEAN,
          rec_ok \in (IF has_monitor THEN RecOutcomes ELSE {TRUE}) :
         LET c    == TryConnect(DbObj, open_ok)
             n    == cl.attempt + 1
             r    == cl.stmt
             inv  == cl.calls + 1
             ran  == c.ok /\ op_ok /\ CanRun(c.sess, c.h)
             good == ran /\ rec_ok
             err  == IF ~c.ok THEN <<"open", r, n>>
                     ELSE IF ~ran THEN <<"op", r, inv>>
                     ELSE <<"monitor", r, inv>>
             last == FinalFailure(cl.attempt, retry_attempts)
             d    == DisconnectAfter([c EXCEPT !.sess = IF ran THEN StmtOkSess(c.sess, c.h, r)
                                                         ELSE c.sess])
         IN
         IF good
         THEN /\ SetConn(DbObj, c)
              /\ sess' = StmtOkSess(c.sess, c.h, r)
              /\ store' = StmtOkStore(c.sess, store, c.h, r)
              /\ ghost' = OffHandle(ghost, c.h)
              /\ LET done == [cl EXCEPT !.calls = @ + 1,
                                        !.log = Append(@, [stmt |-> r, h |-> c.h, fresh |-> ~loaded[DbObj],
                                                          ok |-> TRUE, err |-> None]),
                                        !.recs = Record(@, "OK")]
                 IN  cl' = IF ReturnNow(cl.attempt, retry_attempts)
                           THEN Return(done, "run", <<"res", r, inv>>)
                           ELSE [done EXCEPT !.attempt = n]
         ELSE \* except: last_exception = e; self.disconnect(); sleep or record
              /\ loaded' = [loaded EXCEPT ![DbObj] = d.loaded]
              /\ conn' = [conn EXCEPT ![DbObj] = d.conn]
              /\ sess' = d.sess
              /\ store' = IF ran THEN StmtOkStore(c.sess, store, c.h, r) ELSE store
              /\ ghost' = IF c.ok THEN OffHandle(ghost, c.h) ELSE ghost
              /\ cl' = [cl EXCEPT !.attempt = n,
                                  !.calls = IF c.ok THEN @ + 1 ELSE @,
                                  !.last_exception = err,
                                  !.log = Append(@, [stmt |-> r, h |-> c.h, fresh |-> ~loaded[DbObj],
                                                          ok |-> ran, err |-> err]),
                                  !.slept = IF last THEN @ ELSE @ + Backoff(n),
                                  !.recs = IF last THEN Record(@, "FAILED") ELSE @]
    /\ UNCHANGED <<retry_attempts, has_monitor, in_transaction, nextStmt>>
    /\ UNCHANGED poolVars
    /\ UNCHANGED auxVars

\* the monitor is the package's HealthMonitor: record_query builds a record,
\* appends it and trims the list, and does not raise
RetryAttempt == AttemptWith({TRUE})

\* the monitor is a collaborator whose record_query may raise
RetryAttemptMon == AttemptWith(BOOLEAN)

\* lines 155-157: raise last_exception (raise None is a TypeError)
RetryRaise ==
    /\ cl.pc = "rt_loop"
    /\ ~RetryMore(cl.attempt, retry_attempts)
    /\ cl' = Raise(cl, "run", IF cl.last_exception = None THEN <<"TypeError">>
                              ELSE cl.last_exception)
    /\ UNCHANGED <<retry_attempts, has_monitor, in_transaction, nextStmt, ghost>>
    /\ UNCHANGED <<objVars, poolVars>>
    /\ UNCHANGED auxVars

-----------------------------------------------------------------------------
\* udbcore/transactions.py: TransactionManager on the object DbObj.
\* A call is a function of the world it runs in: the object's fields, the
\* engine's sessions and database, the coordinator's flag and the history.

World == [loaded |-> loaded[DbObj], conn |-> conn[DbObj], sess |-> sess, store |-> store,
          in_transaction |-> in_transaction, ghost |-> ghost, err |-> None]

\* the world at the start of a coordinator call or scope
Entered == [World EXCEPT !.ghost.ctl = <<>>, !.ghost.pre = Visible, !.ghost.warn = None]

Install(w) ==
    /\ loaded' = [loaded EXCEPT ![DbObj] = w.loaded]
    /\ conn' = [conn EXCEPT ![DbObj] = w.conn]
    /\ sess' = w.sess
    /\ store' = w.store
    /\ in_transaction' = w.in_transaction
    /\ ghost' = w.ghost

WFresh(w) ==
    <<DbObj[1], DbObj[2],
      Least({k \in 1..MaxGen : <<DbObj[1], DbObj[2], k>> \notin
                                 (DOMAIN w.sess \cup cl.handles \cup w.ghost.handles)})>>

\* DuckDB.connect(); open_ok: duckdb.connect(path) does not raise
connect(w, open_ok) ==
    IF w.loaded THEN [w EXCEPT !.err = None]
    ELSE IF open_ok
         THEN [w EXCEPT !.conn = WFresh(w), !.loaded = TRUE,
                        !.sess = Put(@, WFresh(w), NewSession), !.err = None]
         ELSE [w EXCEPT !.err = <<"open">>]

CtlSendsRetried(stmt, ok) ==
    IF ok THEN << <<stmt, "ok">> >> ELSE << <<stmt, "failed">>, <<stmt, "failed">> >>

\* the sends of one conn.execute(stmt) of a control statement: the call is
\* made outside the retry engine, once
CtlSends(stmt, ok) == << <<stmt, IF ok THEN "ok" ELSE "failed">> >>

\* conn.execute(stmt) of a control statement on handle h
execute_ctl(w, h, stmt, eng_ok) ==
    LET ok == CtlOk(w.sess, h, stmt, eng_ok) IN
    [w EXCEPT !.sess = CtlSess(@, h, stmt, eng_ok),
              !.store = CtlStore(w.sess, @, h, stmt, eng_ok),
              !.ghost.ctl = @ \o CtlSends(stmt, ok),
              !.err = IF ok THEN None ELSE <<"ctl", stmt>>]

\* conn.execute(query) of statement r on handle h
execute_stmt(w, h, r, op_ok, inval) ==
    IF op_ok /\ CanRun(w.sess, h)
    THEN [w EXCEPT !.sess = StmtOkSess(@, h, r), !.store = StmtOkStore(w.sess, @, h, r),
                   !.ghost = OffHandle(@, h), !.err = None]
    ELSE [w EXCEPT !.sess = StmtFailSess(@, h, inval), !.ghost = OffHandle(@, h),
                   !.err = <<"op", r, 1>>]

\* the coordinator became Active on handle h / left Active
SetBegin(g, h) == [g EXCEPT !.begin_handle = h, !.handles = {h}, !.off_handle = FALSE]

ClearBegin(g) == [g EXCEPT !.begin_handle = None, !.handles = {}, !.off_handle = FALSE,
                           !.at_begin = {}]

BeginRefusedNever(in_txn) == FALSE

\* line 27: if self.in_transaction: raise RuntimeError
BeginRefused(in_txn) == in_txn

CommitRefusedNever(in_txn) == FALSE

\* line 37: if not self.in_transaction: raise RuntimeError
CommitRefused(in_txn) == ~in_txn

RollbackSkippedNever(in_txn) == FALSE

\* line 47: if not self.in_transaction: warn and return
RollbackSkipped(in_txn) == ~in_txn

FlagStuckOnError(err) == err # None

FlagKeptAfterRollback(err) == TRUE

\* lines 54 and 58: self.in_transaction = False, also after an error
FlagAfterRollback(err) == FALSE

BeginSetsFlagFirst(w, open_ok) ==
    IF BeginRefused(w.in_transaction) THEN [w EXCEPT !.err = <<"RuntimeError">>]
    ELSE LET c == connect([w EXCEPT !.in_transaction = TRUE], open_ok) IN
         IF c.err # None THEN c
         ELSE LET e == execute_ctl(c, c.conn, "BEGIN", TRUE) IN
              IF e.err # None THEN e
              ELSE [e EXCEPT !.ghost = [SetBegin(@, e.conn) EXCEPT !.at_begin = w.store]]

begin_transaction(w, open_ok) ==
    IF BeginRefused(w.in_transaction) THEN [w EXCEPT !.err = <<"RuntimeError">>]
    ELSE LET c == connect(w, open_ok) IN
         IF c.err # None THEN c
         ELSE LET e == execute_ctl(c, c.conn, "BEGIN", TRUE) IN
              IF e.err # None THEN e
              ELSE [e EXCEPT !.in_transaction = TRUE,
                             !.ghost = [SetBegin(@, e.conn) EXCEPT !.at_begin = w.store]]

commit(w, open_ok, eng_ok) ==
    IF CommitRefused(w.in_transaction) THEN [w EXCEPT !.err = <<"RuntimeError">>]
    ELSE LET c == connect(w, open_ok) IN
         IF c.err # None THEN c
         ELSE LET e == execute_ctl(c, c.conn, "COMMIT", eng_ok) IN
              IF e.err # None THEN e
              ELSE [e EXCEPT !.in_transaction = FALSE, !.ghost = ClearBegin(@)]

RollbackAsCommit == "COMMIT"

\* line 53: the statement rollback() issues
RollbackStmt == "ROLLBACK"

\* rollback() never raises: it logs the error and resets the flag anyway
rollback(w, open_ok) ==
    IF RollbackSkipped(w.in_transaction) THEN [w EXCEPT !.err = None]
    ELSE LET c == connect(w, open_ok)
             e == IF c.err # None
                  THEN [c EXCEPT !.ghost.ctl = Append(@, <<RollbackStmt, "noconn">>)]
                  ELSE execute_ctl(c, c.conn, RollbackStmt, TRUE)
         IN  [e EXCEPT !.in_transaction = FlagAfterRollback(e.err), !.err = None,
                       !.ghost = [ClearBegin(@) EXCEPT !.warn = e.err]]

\* the handle in the call's local variable conn
TheHandle(c) == CHOOSE h \in c.handles : TRUE

\* tm.begin_transaction() / tm.commit() / tm.rollback() called by hand
TmBegin ==
    /\ cl.pc = "idle" /\ cl.scope = "none"
    /\ \E open_ok \in OpenOutcomes :
         LET w == begin_transaction(Entered, open_ok) IN
         /\ Install(w)
         /\ cl' = IF w.err # None THEN Raise(CliIdle, "begin", w.err)
                  ELSE Return(CliIdle, "begin", None)
    /\ UNCHANGED <<retry_attempts, has_monitor, nextStmt>>
    /\ UNCHANGED poolVars
    /\ UNCHANGED auxVars

TmCommit ==
    /\ cl.pc = "idle" /\ cl.scope = "none"
    /\ \E open_ok \in OpenOutcomes, eng_ok \in BOOLEAN :
         LET w == commit(Entered, open_ok, eng_ok) IN
         /\ Install(w)
         /\ cl' = IF w.err # None THEN Raise(CliIdle, "commit", w.err)
                  ELSE Return(CliIdle, "commit", None)
    /\ UNCHANGED <<retry_attempts, has_monitor, nextStmt>>
    /\ UNCHANGED poolVars
    /\ UNCHANGED auxVars

TmRollback ==
    /\ cl.pc = "idle" /\ cl.scope = "none"
    /\ \E open_ok \in OpenOutcomes :
         /\ Install(rollback(Entered, open_ok))
         /\ cl' = Return(CliIdle, "rollback", None)
    /\ UNCHANGED <<retry_attempts, has_monitor, nextStmt>>
    /\ UNCHANGED poolVars
    /\ UNCHANGED auxVars

\* conn = db.connect(); conn.execute(query): a statement issued directly on
\* the connection, outside the retry engine
DirectExec ==
    /\ cl.pc = "idle"
    /\ nextStmt <= MaxStmts
    /\ \E open_ok \in OpenOutcomes, op_ok \in BOOLEAN, inval \in BOOLEAN :
         LET c == connect(World, open_ok)
             w == IF c.err # None THEN c ELSE execute_stmt(c, c.conn, nextStmt, op_ok, inval)
             k == [cl EXCEPT !.log = IF c.err # None THEN <<>>
                                     ELSE <<[stmt |-> nextStmt, h |-> c.conn,
                                             fresh |-> ~loaded[DbObj],
                                             ok |-> (w.err = None), err |-> w.err]>>]
         IN
         /\ Install(w)
         /\ cl' = IF w.err # None THEN Raise(k, "direct", w.err)
                  ELSE Return(k, "direct", <<"res", nextStmt, 1>>)
    /\ nextStmt' = nextStmt + 1
    /\ UNCHANGED <<retry_attempts, has_monitor>>
    /\ UNCHANGED poolVars
    /\ UNCHANGED auxVars

\* execute_in_transaction, lines 67-71: begin_transaction(), conn = connect()
EitStart ==
    /\ cl.pc = "idle" /\ cl.scope = "none"
    /\ \E len \in 1..MaxQueries, open_ok \in OpenOutcomes :
         /\ nextStmt + len - 1 <= MaxStmts
         /\ LET b == begin_transaction(Entered, open_ok)
                c == IF b.err # None THEN b ELSE connect(b, open_ok)
                q == [i \in 1..len |-> nextStmt + i - 1]
            IN
            /\ Install(c)
            /\ cl' = IF c.err # None
                     THEN Raise([CliIdle EXCEPT !.queries = q], "eit", c.err)
                     ELSE [CliIdle EXCEPT !.pc = "eit_loop", !.op = "eit", !.stmt = 1,
                                          !.queries = q, !.handles = {c.conn}]
         /\ nextStmt' = nextStmt + len
    /\ UNCHANGED <<retry_attempts, has_monitor>>
    /\ UNCHANGED poolVars
    /\ UNCHANGED auxVars

\* lines 72-74 and 76-79: one query of the loop; on its failure rollback()
\* and raise
EitStep ==
    /\ cl.pc = "eit_loop"
    /\ cl.stmt <= Len(cl.queries)
    /\ \E open_ok \in OpenOutcomes, op_ok \in BOOLEAN, inval \in BOOLEAN :
         LET h == TheHandle(cl)
             r == cl.queries[cl.stmt]
             e == execute_stmt(World, h, r, op_ok, inval)
             k == [cl EXCEPT !.log = Append(@, [stmt |-> r, h |-> h, fresh |-> FALSE,
                                                ok |-> (e.err = None), err |-> e.err]),
                             !.calls = @ + 1]
         IN
         IF e.err = None
         THEN /\ Install(e)
              /\ cl' = [k EXCEPT !.stmt = @ + 1, !.results = Append(@, <<"res", r, 1>>)]
         ELSE /\ Install(rollback(e, open_ok))
              /\ cl' = Raise(k, "eit", e.err)
    /\ UNCHANGED <<retry_attempts, has_monitor, nextStmt>>
    /\ UNCHANGED poolVars
    /\ UNCHANGED auxVars

\* lines 75-81: commit() after the last query, then return results
EitCommit ==
    /\ cl.pc = "eit_loop"
    /\ cl.stmt > Len(cl.queries)
    /\ \E open_ok \in OpenOutcomes, eng_ok \in BOOLEAN :
         LET e == commit(World, open_ok, eng_ok) IN
         IF e.err = None
         THEN /\ Install(e)
              /\ cl' = Return(cl, "eit", cl.results)
         ELSE /\ Install(rollback(e, open_ok))
              /\ cl' = Raise(cl, "eit", e.err)
    /\ UNCHANGED <<retry_attempts, has_monitor, nextStmt>>
    /\ UNCHANGED poolVars
    /\ UNCHANGED auxVars

\* how the scope ends: normally, or by raising err
ScopeExit(status, err, body_err) ==
    [CliIdle EXCEPT !.last = [NoLast EXCEPT !.op = "scope", !.status = status, !.err = err,
                                            !.body_err = body_err]]

\* with tm.transaction(): line 95, begin_transaction() before the body
ScopeEnter ==
    /\ cl.pc = "idle" /\ cl.scope = "none"
    /\ \E open_ok \in OpenOutcomes :
         LET w == begin_transaction(Entered, open_ok) IN
         /\ Install(w)
         /\ cl' = IF w.err # None THEN ScopeExit("raised", w.err, None)
                  ELSE [CliIdle EXCEPT !.scope = "tm"]
    /\ UNCHANGED <<retry_attempts, has_monitor, nextStmt>>
    /\ UNCHANGED poolVars
    /\ UNCHANGED auxVars

\* the body raises an error of its own
BodyRaise ==
    /\ cl.pc = "idle" /\ cl.scope = "tm"
    /\ cl' = [cl EXCEPT !.pc = "tm_except", !.op = "body", !.exc = <<"custom">>]
    /\ UNCHANGED <<retry_attempts, has_monitor, in_transaction, nextStmt, ghost>>
    /\ UNCHANGED <<objVars, poolVars>>
    /\ UNCHANGED auxVars

\* line 98: the body completed, commit()
BodyEnd ==
    /\ cl.pc = "idle" /\ cl.scope = "tm"
    /\ \E open_ok \in OpenOutcomes, eng_ok \in BOOLEAN :
         LET w == commit(World, open_ok, eng_ok) IN
         /\ Install(w)
         /\ cl' = IF w.err = None THEN ScopeExit("ok", None, None)
                  ELSE [cl EXCEPT !.pc = "tm_except", !.op = "commit", !.exc = w.err]
    /\ UNCHANGED <<retry_attempts, has_monitor, nextStmt>>
    /\ UNCHANGED poolVars
    /\ UNCHANGED auxVars

ScopeReraiseMasked(exc, rollback_error) ==
    IF rollback_error # None THEN rollback_error ELSE exc

\* line 105: a bare raise re-raises the exception being handled
ScopeReraise(exc, rollback_error) == exc

\* lines 99-105: rollback(), then re-raise
TmExcept ==
    /\ cl.pc = "tm_except"
    /\ \E open_ok \in OpenOutcomes :
         LET w == rollback(World, open_ok) IN
         /\ Install(w)
         /\ cl' = ScopeExit("raised", ScopeReraise(cl.exc, w.ghost.warn),
                            IF cl.op = "body" THEN cl.exc ELSE None)
    /\ UNCHANGED <<retry_attempts, has_monitor, nextStmt>>
    /\ UNCHANGED poolVars
    /\ UNCHANGED auxVars

-----------------------------------------------------------------------------
\* udbcore/ddb.py: DuckDB.transaction, the scope offered by the object itself

DbScopeExit(status, err, body_err) ==
    [CliIdle EXCEPT !.last = [NoLast EXCEPT !.op = "dbscope", !.status = status,
                                            !.err = err, !.body_err = body_err]]

\* lines 337-340: conn = self.connect(); conn.execute("BEGIN TRANSACTION;")
DbScopeEnter ==
    /\ cl.pc = "idle" /\ cl.scope = "none"
    /\ \E open_ok \in OpenOutcomes :
         LET c == connect(Entered, open_ok)
             w == IF c.err # None THEN c ELSE execute_ctl(c, c.conn, "BEGIN", TRUE)
         IN
         /\ Install(w)
         /\ cl' = IF w.err # None THEN DbScopeExit("raised", w.err, None)
                  ELSE [CliIdle EXCEPT !.scope = "db", !.handles = {w.conn}]
    /\ UNCHANGED <<retry_attempts, has_monitor, nextStmt>>
    /\ UNCHANGED poolVars
    /\ UNCHANGED auxVars

\* the body raises an error of its own
DbBodyRaise ==
    /\ cl.pc = "idle" /\ cl.scope = "db"
    /\ cl' = [cl EXCEPT !.pc = "db_except", !.op = "body", !.exc = <<"custom">>]
    /\ UNCHANGED <<retry_attempts, has_monitor, in_transaction, nextStmt, ghost>>
    /\ UNCHANGED <<objVars, poolVars>>
    /\ UNCHANGED auxVars

\* line 341: the body completed, conn.execute("COMMIT;") on the local conn
DbBodyEnd ==
    /\ cl.pc = "idle" /\ cl.scope = "db"
    /\ \E eng_ok \in BOOLEAN :
         LET w == execute_ctl(World, TheHandle(cl), "COMMIT", eng_ok) IN
         /\ Install(w)
         /\ cl' = IF w.err = None THEN DbScopeExit("ok", None, None)
                  ELSE [cl EXCEPT !.pc = "db_except", !.op = "commit", !.exc = w.err]
    /\ UNCHANGED <<retry_attempts, has_monitor, nextStmt>>
    /\ UNCHANGED poolVars
    /\ UNCHANGED auxVars

\* lines 342-344: conn.execute("ROLLBACK;") outside any try, then raise: an
\* error of the ROLLBACK is the one that leaves the scope
DbExcept ==
    /\ cl.pc = "db_except"
    /\ LET w == execute_ctl(World, TheHandle(cl), "ROLLBACK", TRUE) IN
       /\ Install(w)
       /\ cl' = DbScopeExit("raised", IF w.err # None THEN w.err ELSE cl.exc,
                            IF cl.op = "body" THEN cl.exc ELSE None)
    /\ UNCHANGED <<retry_attempts, has_monitor, nextStmt>>
    /\ UNCHANGED poolVars
    /\ UNCHANGED auxVars

\* no pool in the client's specification
PoolParked ==
    /\ max_connections = 0
    /\ connection_timeout = 0
    /\ pool = <<>>
    /\ lock = NoThread
    /\ running = FALSE
    /\ now = 0
    /\ th = [t \in Callers |-> IdleTh]
    /\ rpc = "done"
    /\ rtime = 0

\* DuckDB(path, name, retry_attempts=...), optionally get_health_monitor(),
\* and TransactionManager(db)
CliInit ==
    /\ retry_attempts \in -1..MaxRetry
    /\ has_monitor \in BOOLEAN
    /\ in_transaction = FALSE
    /\ cl = CliIdle
    /\ nextStmt = 1
    /\ ghost = GhostInit

TxnNext ==
    \/ RunStart
    \/ RetryAttempt
    \/ RetryRaise
    \/ DirectExec
    \/ TmBegin
    \/ TmCommit
    \/ TmRollback
    \/ EitStart
    \/ EitStep
    \/ EitCommit
    \/ ScopeEnter
    \/ BodyRaise
    \/ BodyEnd
    \/ TmExcept

TxnInit == PoolParked /\ ObjInit /\ CliInit /\ AuxParked

TxnSpec == TxnInit /\ [][TxnNext]_vars

\* the client uses the object's own scope instead of a coordinator
DbTxnNext ==
    \/ RunStart
    \/ RetryAttempt
    \/ RetryRaise
    \/ DirectExec
    \/ DbScopeEnter
    \/ DbBodyRaise
    \/ DbBodyEnd
    \/ DbExcept

DbTxnSpec == TxnInit /\ [][DbTxnNext]_vars

\* the same client with a monitor whose record_query may raise
MonNext ==
    \/ RunStart
    \/ RetryAttemptMon
    \/ RetryRaise

MonSpec == TxnInit /\ [][MonNext]_vars

\* DB.acceptable_name called on one name
NameInit ==
    /\ PoolParked /\ ObjInit /\ CliParked /\ MonParked /\ gp = GpStart
    /\ arg_name \in Names
    /\ verdict = "-"

NameNext == AcceptableName

NameSpec == NameInit /\ [][NameNext]_vars

-----------------------------------------------------------------------------
\* dbcore/monitoring.py: HealthMonitor.record_query

\* l[start:] of a Python list: a negative start counts from the end, and
\* -0 is 0
SliceFrom(l, start) ==
    LET from == IF start < 0 THEN (IF Len(l) + start < 0 THEN 0 ELSE Len(l) + start)
                ELSE (IF start > Len(l) THEN Len(l) ELSE start)
    IN  SubSeq(l, from + 1, Len(l))

\* lines 63-67: append, then trim to the last max_query_history records
Trimmed(history, max) ==
    IF Len(history) > max THEN SliceFrom(history, 0 - max) ELSE history

\* record_query(query, execution_time): the k-th record made; slow is
\* execution_time > 1.0, which only adds a log line
RecordQuery ==
    /\ mon.recorded < MaxRecords
    /\ \E slow \in BOOLEAN :
         mon' = [mon EXCEPT !.recorded = @ + 1,
                            !.query_history =
                                Trimmed(Append(@, [id |-> mon.recorded + 1, slow |-> slow]),
                                        mon.max_query_history)]
    /\ UNCHANGED <<nameVars, gp, poolVars, objVars, cliVars>>

\* HealthMonitor(duckdb_instance, max_query_history)
HistInit ==
    /\ PoolParked /\ ObjInit /\ CliParked /\ NameParked /\ gp = GpStart
    /\ \E m \in 0..MaxHist :
         mon = [max_query_history |-> m, query_history |-> <<>>, recorded |-> 0]

HistNext == RecordQuery

HistSpec == HistInit /\ [][HistNext]_vars

-----------------------------------------------------------------------------
\* udbcore/connection_pool.py: get_global_pool, close_global_pool

AlwaysNone(g) == TRUE

\* line 165, under _pool_lock: if _global_pool is None
StillNone(g) == g = 0

\* get_global_pool(), statement by statement
get_global_pool(t) ==
    LET me == gp.gt[t] IN
    \/ \* line 163: if _global_pool is None
       /\ me.pc \in {"idle", "got", "raised"}
       /\ gp.made < MaxPools
       /\ gp' = [gp EXCEPT !.gt[t] = [pc |-> IF gp.inst = 0 THEN "lock" ELSE "ret",
                                      saw_none |-> (gp.inst = 0),
                                      result |-> 0, stale |-> FALSE]]
    \/ \* line 164: with _pool_lock
       /\ me.pc = "lock"
       /\ gp.plock = "none"
       /\ gp' = [gp EXCEPT !.plock = t, !.gt[t].pc = "inner"]
    \/ \* lines 165-166: if _global_pool is None: _global_pool = ConnectionPool()
       /\ me.pc = "inner"
       /\ gp' = IF StillNone(gp.inst)
                THEN [gp EXCEPT !.made = @ + 1, !.inst = gp.made + 1,
                                !.plock = "none", !.gt[t].pc = "ret"]
                ELSE [gp EXCEPT !.plock = "none", !.gt[t].pc = "ret"]
    \/ \* line 167: return _global_pool
       /\ me.pc = "ret"
       /\ gp' = [gp EXCEPT !.gt[t].pc = "got",
                           !.gt[t].result = gp.inst,
                           !.gt[t].stale = (gp.inst \in gp.closing)]

\* close_global_pool(), statement by statement; it takes no lock
close_global_pool(t) ==
    LET me == gp.gt[t] IN
    \/ \* line 173: if _global_pool is not None
       /\ me.pc \in {"idle", "got", "raised"}
       /\ gp.made < MaxPools
       /\ gp' = [gp EXCEPT !.closed_called = TRUE,
                           !.gt[t] = [pc |-> IF gp.inst # 0 THEN "close_all" ELSE "idle",
                                      saw_none |-> FALSE, result |-> 0, stale |-> FALSE]]
    \/ \* line 174: _global_pool.close_all(); on None an AttributeError
       /\ me.pc = "close_all"
       /\ gp' = IF gp.inst = 0
                THEN [gp EXCEPT !.gt[t].pc = "raised"]
                ELSE [gp EXCEPT !.closing = @ \cup {gp.inst}, !.gt[t].pc = "clear"]
    \/ \* close_all returned; line 175: _global_pool = None
       /\ me.pc = "clear"
       /\ gp' = [gp EXCEPT !.inst = 0, !.gt[t].pc = "idle"]

GlobInit ==
    /\ PoolParked /\ ObjInit /\ CliParked /\ NameParked /\ MonParked
    /\ gp = GpStart

GlobNext ==
    \/ \E t \in Callers :
         get_global_pool(t) /\ UNCHANGED <<nameVars, mon, poolVars, objVars, cliVars>>
    \/ \E t \in Callers :
         close_global_pool(t) /\ UNCHANGED <<nameVars, mon, poolVars, objVars, cliVars>>

GlobSpec == GlobInit /\ [][GlobNext]_vars

-----------------------------------------------------------------------------
\* Properties of the retry engine and the transaction coordinator (TxnSpec)

\* the call that ended last went through _execute_with_retry
RunEnded(status) == cl.last.op = "run" /\ cl.last.status = status

\* every pass of the loop invoked the operation, and the operation failed
AllOpFailures(L) == \A j \in 1..Len(L) : L[j].h # None /\ ~L[j].ok

\* the passes of the loop that invoked the operation
Invocations(L) == {j \in 1..Len(L) : L[j].h # None}

\* what exhaustion looks like: retry_attempts invocations, and the error
\* raised is the one the last of them raised
ExhaustedRight ==
    /\ cl.last.calls = retry_attempts
    /\ Len(cl.last.log) >= 1
    /\ cl.last.err = cl.last.log[Len(cl.last.log)].err

\* C5 as stated: for every configured retry_attempts, an operation that fails
\* on every attempt is invoked exactly retry_attempts times and the call then
\* raises the error of the last attempt.
C5_Original ==
    (RunEnded("raised") /\ AllOpFailures(cl.last.log)) => ExhaustedRight

\* C5: for every retry_attempts >= 1, an operation that fails on every
\* attempt is invoked exactly retry_attempts times, after which the call
\* raises the very error the last attempt raised.  (With retry_attempts <= 0
\* the loop never runs and "raise None" raises a TypeError.)
C5_RetryCeiling ==
    (retry_attempts >= 1 /\ RunEnded("raised") /\ AllOpFailures(cl.last.log))
        => ExhaustedRight

C5_Witness ==
    /\ RunEnded("raised") /\ AllOpFailures(cl.last.log)
    /\ retry_attempts = MaxRetry
    /\ cl.last.calls = MaxRetry
    /\ cl.last.err = <<"op", cl.last.log[MaxRetry].stmt, MaxRetry>>

\* C6: an operation that fails on its first k invocations (k < retry_attempts)
\* and then succeeds is invoked exactly k+1 times; the call returns the result
\* of the (k+1)-th invocation and makes no attempt after the first success.
C6_FirstSuccessReturns ==
    /\  cl.pc = "rt_loop" => \A j \in 1..Len(cl.log) : ~cl.log[j].ok
    /\  RunEnded("ok") =>
            LET L == cl.last.log
                n == Len(L)
            IN  /\ n >= 1 /\ n <= retry_attempts
                /\ L[n].ok
                /\ \A j \in 1..(n - 1) : ~L[j].ok
                /\ cl.last.calls = Cardinality(Invocations(L))
                /\ cl.last.result = <<"res", L[n].stmt, cl.last.calls>>

C6_Witness ==
    /\ RunEnded("ok")
    /\ cl.last.calls = 3
    /\ Len(cl.last.log) = 3
    /\ ~cl.last.log[2].ok
    /\ retry_attempts >= 3

\* the coordinator's connection is the one BEGIN TRANSACTION was issued on:
\* it is open, it is the object's connection, and no statement has run
\* elsewhere
StableConnection ==
    /\ ghost.begin_handle \in hopen
    /\ loaded[DbObj]
    /\ conn[DbObj] = ghost.begin_handle
    /\ ~ghost.off_handle

\* C7 as stated: from a successful begin_transaction until the matching
\* commit or rollback every statement run on the DuckDB object, retried ones
\* included, executes on the open connection BEGIN TRANSACTION was issued on;
\* the retry engine never closes and reopens it while the coordinator is
\* Active.
C7_Original == in_transaction => StableConnection

\* the scoped transaction has ended
ScopeEnded(status) == cl.last.op = "scope" /\ cl.last.status = status

\* C8 as stated: whenever a scoped transaction exits by raising, the
\* database content equals its content before the scope was entered.
C8_Original == ScopeEnded("raised") => Visible = ghost.pre

\* C9: execute_in_transaction in which some statement fails runs the
\* statements before it in order and none after it, issues ROLLBACK, raises
\* the triggering error, returns no partial results, and leaves the database
\* content as it was before the call.
C9_EitFailureRollsBack ==
    (cl.last.op = "eit" /\ cl.last.status = "raised" /\ cl.last.log # <<>>
        /\ ~cl.last.log[Len(cl.last.log)].ok) =>
        LET L == cl.last.log
            Q == cl.last.queries
            i == Len(L)
        IN  /\ i <= Len(Q)
            /\ \A j \in 1..i : L[j].stmt = Q[j] /\ L[j].ok = (j < i)
            /\ cl.last.err = L[i].err
            /\ cl.last.result = None
            /\ ghost.ctl = << <<"BEGIN", "ok">>, <<"ROLLBACK", "ok">> >>
            /\ ~in_transaction
            /\ store = ghost.pre
            /\ Visible = ghost.pre

C9_Witness ==
    /\ cl.last.op = "eit" /\ cl.last.status = "raised"
    /\ Len(cl.last.queries) = 3
    /\ Len(cl.last.log) = 2
    /\ cl.last.log[1].ok /\ ~cl.last.log[2].ok
    /\ cl.last.err = <<"op", cl.last.queries[2], 1>>

\* C10: the scoped transaction issues BEGIN before the body and COMMIT when
\* the body completes normally; when the body raises, it attempts ROLLBACK
\* and re-raises exactly the body's error, also when the ROLLBACK fails.
C10_ScopeProtocol ==
    /\  (cl.scope = "tm" /\ cl.pc # "tm_except") => ghost.ctl = << <<"BEGIN", "ok">> >>
    /\  ScopeEnded("ok") => ghost.ctl = << <<"BEGIN", "ok">>, <<"COMMIT", "ok">> >>
    /\  (ScopeEnded("raised") /\ cl.last.body_err # None) =>
            /\ cl.last.err = cl.last.body_err
            /\ Len(ghost.ctl) = 2
            /\ ghost.ctl[1] = <<"BEGIN", "ok">>
            /\ ghost.ctl[2][1] = "ROLLBACK"

C10_Witness ==
    /\ ScopeEnded("raised")
    /\ cl.last.body_err = <<"custom">>
    /\ cl.last.err = <<"custom">>
    /\ ghost.warn = <<"ctl", "ROLLBACK">>

\* the scope of DuckDB.transaction has ended
DbScopeEnded(status) == cl.last.op = "dbscope" /\ cl.last.status = status

\* C11 as stated: DuckDB.transaction commits the body's statements when the
\* body completes normally; when the body raises it rolls them back and
\* re-raises the body's own error unchanged, also when the ROLLBACK fails or
\* the connection was closed and reopened inside the body.
C11_Original ==
    /\  DbScopeEnded("ok") =>
            /\ ghost.ctl = << <<"BEGIN", "ok">>, <<"COMMIT", "ok">> >>
            /\ Visible = store
    /\  (DbScopeEnded("raised") /\ cl.last.body_err # None) =>
            /\ cl.last.err = cl.last.body_err
            /\ Visible = ghost.pre

\* the client is about to make a call on the coordinator by hand
AtCall == cl.pc = "idle" /\ cl.scope = "none"

\* the step was a call that failed as an invalid-state error and touched
\* neither the connection, the engine nor the coordinator's flag
Refused ==
    /\ cl'.last.status = "raised"
    /\ cl'.last.err = <<"RuntimeError">>
    /\ ghost'.ctl = <<>>
    /\ UNCHANGED <<objVars, in_transaction>>

\* C12: begin_transaction while Active (by hand, or through
\* execute_in_transaction or transaction()) and commit while Idle raise
\* RuntimeError, issue no control statement and leave in_transaction and the
\* database untouched.
C12_InvalidStateCalls ==
    [][ AtCall =>
          /\ (in_transaction /\ cl'.last.op \in {"begin", "eit", "scope"}) => Refused
          /\ (~in_transaction /\ cl'.last.op = "commit") => Refused ]_vars

C12_Witness ==
    /\ in_transaction
    /\ cl.last.op = "eit" /\ cl.last.err = <<"RuntimeError">>
    /\ ghost.begin_handle \in hopen
    /\ sess[ghost.begin_handle].txn = "active"
    /\ sess[ghost.begin_handle].pending # {}

\* C13: rollback on an Idle coordinator returns normally, issues no ROLLBACK,
\* opens no connection and leaves the coordinator Idle, however often it is
\* called.
C13_IdleRollbackNoOp ==
    [][ (AtCall /\ ~in_transaction /\ cl'.last.op = "rollback") =>
          /\ cl'.last.status = "ok"
          /\ ghost'.ctl = <<>>
          /\ UNCHANGED <<objVars, in_transaction>> ]_vars

C13_Witness ==
    /\ cl.last.op = "rollback" /\ cl.last.status = "ok"
    /\ ghost.ctl = <<>>
    /\ ~in_transaction
    /\ ~loaded[DbObj]
    /\ store # {}

\* C14: rollback while Active never raises and always leaves the coordinator
\* Idle, whether ROLLBACK succeeds, fails, or the connection cannot be
\* reopened; after a ROLLBACK that succeeded nothing executed since begin is
\* persisted.
C14_ActiveRollbackEndsIdle ==
    [][ (AtCall /\ in_transaction /\ cl'.last.op = "rollback") =>
          /\ cl'.last.status = "ok"
          /\ ~in_transaction'
          /\ Len(ghost'.ctl) = 1 /\ ghost'.ctl[1][1] = "ROLLBACK"
          /\ (ghost'.ctl[1][2] = "ok" => store' = ghost.at_begin /\ Visible' = ghost.at_begin)
      ]_vars

C14_Witness ==
    /\ cl.last.op = "rollback" /\ cl.last.status = "ok"
    /\ ~in_transaction
    /\ ghost.ctl = << <<"ROLLBACK", "noconn">> >>
    /\ ghost.warn = <<"open">>

-----------------------------------------------------------------------------
\* Properties of the pool: shutdown, exhaustion, failures of get_connection

\* C15 as stated: once close_all has begun clearing the map, and ever after,
\* the reaper performs no further pass: it never again takes the pool lock,
\* disconnects a connection or deletes a map entry.
C15_Original == ghost.shutdown => (lock # Reaper /\ rpc \notin {"body", "exit"})

C17_Original ==
    ghost.shutdown => (pool = <<>> /\ \A t \in Callers : th[t].result = None)

\* a get of an absent key found the pool at capacity; the key is valid and
\* its open did not fail
ExhaustedGet(t) ==
    /\ th[t].pc = "get_exit"
    /\ th[t].path \notin PoolKeys(th[t].pre)
    /\ Len(th[t].pre) >= max_connections
    /\ DuckDBInitOk(th[t].path)
    /\ th[t].exc # "OpenError"

\* the call returned a connection, having evicted a least-recently-used entry
ReturnedByEvicting(t) ==
    /\ th[t].exc = "none"
    /\ th[t].result # None
    /\ ObjOpen(th[t].result)
    /\ EntryOf(pool, th[t].path).duckdb = th[t].result
    /\ th[t].evicted \in PoolKeys(th[t].pre)
    /\ \A f \in Entries(th[t].pre) :
          EntryOf(th[t].pre, th[t].evicted).last_used <= f.last_used

\* C18 as stated: for every configured max_connections, a get of a valid,
\* openable, absent key at capacity returns a connection instead of raising,
\* evicting the least-recently-used entry.
C18_Original ==
    \A t \in Callers : ExhaustedGet(t) => ReturnedByEvicting(t)

\* C18: for every max_connections >= 1 pool exhaustion never raises: a get
\* of a valid, openable, absent key at capacity returns a connection, making
\* room by evicting the least-recently-used entry.  (With max_connections = 0
\* the empty pool is "full" and min() of no keys raises ValueError.)
C18_ExhaustionEvicts ==
    \A t \in Callers :
        (max_connections >= 1 /\ ExhaustedGet(t)) => ReturnedByEvicting(t)

C18_Witness ==
    \E t \in Callers :
        /\ ExhaustedGet(t)
        /\ max_connections = 2
        /\ th[t].exc = "none"
        /\ th[t].evicted = th[t].pre[2].path

\* C19: when the open fails inside get_connection, below or at capacity,
\* the error propagates, the map has no entry for the key afterwards, and a
\* later get of that key attempts the open again.
C19_OpenFailureLeavesNoEntry ==
    /\ [](\A t \in Callers :
            (th[t].pc = "get_exit" /\ th[t].exc = "OpenError") =>
                /\ th[t].result = None
                /\ th[t].path \notin PoolKeys(pool)
                /\ Entries(pool) \subseteq Entries(th[t].pre))
    /\ [][\A t \in Callers :
            (th[t].pc = "get_body" /\ th'[t].pc # "get_body" /\ max_connections >= 1
                /\ th[t].path \notin PoolKeys(pool))
            => th'[t].pc = "get_open"]_vars

C19_Witness ==
    \E t \in Callers :
        /\ th[t].pc = "get_exit" /\ th[t].exc = "OpenError"
        /\ th[t].evicted # "-"
        /\ Len(th[t].pre) = 2
        /\ Len(pool) = 1

\* C20 as stated: a get whose key violates the name constraints fails with
\* the validation error before any I/O: in every pool state, also at
\* capacity, no connection is opened, none is closed and the map is as before.
C20_Original ==
    \A t \in Callers :
        (th[t].pc = "get_exit" /\ ~DuckDBInitOk(th[t].path)) =>
            /\ th[t].exc = "ValueError"
            /\ pool = th[t].pre
            /\ hopen = th[t].preH

-----------------------------------------------------------------------------
\* Properties of the pool: return_connection, close_connection, the reaper

\* C21: return_connection(key) changes nothing but the last_used of the entry
\* under key, which becomes the time of the call: it closes no connection,
\* adds or removes no entry and changes no other entry; with no entry under
\* key it has no effect at all.
C21_ReturnOnlyRefreshes ==
    \A t \in Callers :
        th[t].pc = "ret_exit" =>
            /\ th[t].exc = "none"
            /\ hopen = th[t].preH
            /\ Len(pool) = Len(th[t].pre)
            /\ \A i \in 1..Len(pool) :
                  /\ pool[i].path = th[t].pre[i].path
                  /\ pool[i].duckdb = th[t].pre[i].duckdb
                  /\ pool[i].last_used = IF pool[i].path = th[t].path
                                         THEN th[t].tread
                                         ELSE th[t].pre[i].last_used
            /\ (th[t].path \notin PoolKeys(th[t].pre) => pool = th[t].pre)

C21_Witness ==
    \E t \in Callers :
        /\ th[t].pc = "ret_exit"
        /\ Len(th[t].pre) = 2
        /\ th[t].path = th[t].pre[1].path
        /\ th[t].pre[1].last_used = 0
        /\ pool[1].last_used = 1
        /\ pool[2].last_used = 0

ReaperIdle ==
    {e \in Entries(ghost.rpre) : rtime - e.last_used > connection_timeout}

-----------------------------------------------------------------------------
\* Properties of the retry engine: records, reconnects, backoff

\* the retry engine is between two attempts, or past its last one
InRetry == cl.pc = "rt_loop" /\ Len(cl.log) >= 1

\* 1 + 2 + ... + n
RECURSIVE SumTo(_)
SumTo(n) == IF n <= 0 THEN 0 ELSE n + SumTo(n - 1)

\* C24: with a monitor attached one call of _execute_with_retry produces at
\* most one record: one with the plain query when an attempt succeeded, one
\* tagged 'FAILED: ' when all its attempts failed, and none for a failed
\* attempt that another attempt follows.
C24_OneRecordPerCall ==
    has_monitor =>
        /\ Len(cl.recs) <= 1 /\ Len(cl.last.recs) <= 1
        /\ RunEnded("ok") => cl.last.recs = <<"OK">>
        /\ (RunEnded("raised") /\ Len(cl.last.log) >= 1) => cl.last.recs = <<"FAILED">>
        /\ InRetry =>
              cl.recs = IF cl.attempt < retry_attempts THEN <<>> ELSE <<"FAILED">>

C24_Witness ==
    /\ has_monitor
    /\ RunEnded("raised")
    /\ Len(cl.last.log) = 3
    /\ cl.last.recs = <<"FAILED">>

\* the control statements of the running coordinator call or scope that
\* were stmt
CtlCount(stmt) == Cardinality({i \in 1..Len(ghost.ctl) : ghost.ctl[i][1] = stmt})

\* a coordinator call or scope has just failed on a control statement
CtlFailed ==
    /\ cl.pc = "idle"
    /\ cl.last.op \in {"begin", "commit", "eit", "scope"}
    /\ cl.last.status = "raised"
    /\ cl.last.err \in {<<"ctl", "BEGIN">>, <<"ctl", "COMMIT">>}

\* C26: transaction control statements are never retried: a call of
\* begin_transaction, commit, rollback, execute_in_transaction or a
\* transaction() scope sends each of BEGIN, COMMIT and ROLLBACK at most once,
\* and a failing control statement leaves the connection it was sent on open:
\* nothing is closed, reopened or slept for.
C26_ControlNotRetried ==
    /\ \A stmt \in {"BEGIN", "COMMIT", "ROLLBACK"} : CtlCount(stmt) <= 1
    /\ CtlFailed =>
          /\ ObjOpen(DbObj)
          /\ cl.last.slept = 0
          /\ \E i \in 1..Len(ghost.ctl) : ghost.ctl[i] = <<cl.last.err[2], "failed">>

C26_Witness ==
    /\ CtlFailed
    /\ cl.last.op = "eit"
    /\ ghost.ctl = << <<"BEGIN", "ok">>, <<"COMMIT", "failed">>, <<"ROLLBACK", "failed">> >>
    /\ Len(cl.last.queries) = 2

\* C27: after every failed attempt, the final one included, the connection
\* is closed and the object is not loaded; every attempt after a failed one
\* ran on a handle that its own connect() opened, after the handle of the
\* failed attempt was closed, and no handle an attempt failed on is open.
C27_FreshConnectionPerRetry ==
    /\ InRetry =>
          /\ ~loaded[DbObj] /\ conn[DbObj] = None
          /\ \A j \in 1..Len(cl.log) : cl.log[j].h \notin hopen
          /\ \A j \in 2..Len(cl.log) : cl.log[j].h # None => cl.log[j].fresh
    /\ RunEnded("ok") =>
          LET L == cl.last.log IN
          /\ Len(L) >= 2 => L[Len(L)].fresh
          /\ \A j \in 2..(Len(L) - 1) : L[j].h # None => L[j].fresh

C27_Witness ==
    /\ InRetry
    /\ cl.attempt = 3 /\ retry_attempts = 3
    /\ \A j \in 1..3 : cl.log[j].h # None

C30_Original ==
    /\ cl.pc = "rt_loop" => \A j \in 1..Len(cl.log) : ~cl.log[j].ok
    /\ cl.last.op = "run" =>
          \A j \in 1..Len(cl.last.log) :
              cl.last.log[j].ok => (j = Len(cl.last.log) /\ cl.last.status = "ok")

-----------------------------------------------------------------------------
\* Properties of DB.acceptable_name

\* the spellings of a character of the extension, in either case
Cased(c) ==
    CASE c = "d" -> {"d", "D"} [] c = "u" -> {"u", "U"} [] c = "c" -> {"c", "C"}
      [] c = "k" -> {"k", "K"} [] c = "b" -> {"b", "B"} [] OTHER -> {c}

\* the name ends with '.duckdb', whatever the case of its letters
HasExtension(n) ==
    /\ Len(n) >= 7
    /\ \A i \in 1..7 : n[Len(n) - 7 + i] \in Cased(<<".","d","u","c","k","d","b">>[i])

-----------------------------------------------------------------------------
\* Properties of the pool under use of its objects

\* C25 as stated: every object get_connection returns, on a miss and on a
\* hit, has an open connection at the moment it is returned, whatever was
\* done with the object between the gets.
C25_Original ==
    [][\A t \in Callers :
          (th[t].pc # "get_exit" /\ th'[t].pc = "get_exit" /\ th'[t].exc = "none")
          => (loaded'[th'[t].result] /\ conn'[th'[t].result] \in DOMAIN sess')]_vars

-----------------------------------------------------------------------------
\* Liveness of the reaper

\* the key the property follows (the keys are interchangeable)
LivePath == "/d/a.duckdb"

\* the entry under p can become idle: the clock can pass its last_used by
\* more than connection_timeout
IdleCandidate(p) ==
    /\ p \in PoolKeys(pool)
    /\ EntryOf(pool, p).last_used + connection_timeout < MaxTime

\* C31: while the pool is running, an entry that is not touched again is
\* eventually removed from the map by the reaper: an entry that can become
\* idle leaves the map, unless it is refreshed at the end of the clock or
\* close_all is called.
C31_IdleEntryReaped ==
    IdleCandidate(LivePath) ~> (~IdleCandidate(LivePath) \/ ~running)

C31_Witness ==
    /\ rpc = "exit"
    /\ running
    /\ pool = <<>>
    /\ Len(ghost.rpre) = 1
    /\ ghost.rpre[1].last_used + connection_timeout < rtime
    /\ ObjClosed(ghost.rpre[1].duckdb)

-----------------------------------------------------------------------------
\* Properties of the health monitor's history

\* C32 as stated: for every max_query_history, 0 included, the history
\* holds at most max_query_history records, and they are the most recently
\* recorded ones in the order of recording.
C32_Original ==
    LET h == mon.query_history
        k == IF mon.recorded < mon.max_query_history THEN mon.recorded
             ELSE mon.max_query_history
    IN  /\ Len(h) <= mon.max_query_history
        /\ Len(h) = k
        /\ \A i \in 1..Len(h) : h[i].id = mon.recorded - k + i

-----------------------------------------------------------------------------
\* Properties of the retry engine: no attempts configured

\* C33: with retry_attempts of 0 or less _execute_with_retry never invokes
\* the operation, records nothing to the monitor, and ends by raising an
\* error that is not one of the engine's: the TypeError of 'raise None'.
C33_NoAttemptsConfigured ==
    retry_attempts <= 0 =>
        /\ cl.pc = "rt_loop" =>
              (cl.log = <<>> /\ cl.calls = 0 /\ cl.recs = <<>> /\ cl.last_exception = None)
        /\ cl.last.op = "run" =>
              /\ cl.last.status = "raised"
              /\ cl.last.err = <<"TypeError">>
              /\ cl.last.calls = 0 /\ cl.last.log = <<>>
              /\ cl.last.recs = <<>>
              /\ cl.last.slept = 0

C33_Witness ==
    /\ retry_attempts = 0
    /\ has_monitor
    /\ cl.last.op = "run" /\ cl.last.err = <<"TypeError">>
    /\ loaded[DbObj]
    /\ store = {}
    /\ nextStmt = 3

-----------------------------------------------------------------------------
\* Properties of the pool whose objects stay in their callers' hands

\* C34 as stated: the objects handed out by one pool never have more than
\* max_connections open connections at a time: a connection the pool closed
\* stays closed, also when the caller holding the object keeps using it.
C34_Original == Cardinality(hopen) <= max_connections

\* C35 as stated: the pool never closes a connection in use: no eviction
\* and no reaper pass closes a connection on which a transaction is open.
C35_Original ==
    [][\A h \in hopen : sess[h].txn = "active" => h \in DOMAIN sess']_vars

-----------------------------------------------------------------------------
\* Properties of the global pool

\* C36 as stated: get_global_pool never returns a pool on which close_all
\* has been started: whatever the interleaving of get_global_pool and
\* close_global_pool, what a caller receives is a pool, and one that has not
\* been closed and is not being closed.
C36_Original ==
    \A t \in Callers :
        gp.gt[t].pc = "got" => (gp.gt[t].result # 0 /\ ~gp.gt[t].stale)

\* C37: threads calling get_global_pool at the same time while no global
\* pool exists, with nobody calling close_global_pool: exactly one
\* ConnectionPool is constructed and every caller receives that instance.
C37_OneGlobalPool ==
    ~gp.closed_called =>
        /\ gp.made <= 1
        /\ \A t \in Callers :
              gp.gt[t].pc = "got" => (gp.made = 1 /\ gp.gt[t].result = 1)

C37_Witness ==
    /\ ~gp.closed_called
    /\ gp.made = 1
    /\ \A t \in Callers : gp.gt[t].pc = "got" /\ gp.gt[t].saw_none /\ gp.gt[t].result = 1

-----------------------------------------------------------------------------
\* Termination of close_all and of the reaper

\* C38: close_all always terminates and cannot deadlock with the reaper: it
\* waits for the reaper without holding the pool lock, so it returns
\* whether the reaper sleeps, waits for the lock or is in a pass; and after
\* close_all the reaper exits, having made at most one further pass.
C38_CloseAllTerminates ==
    /\ [](ghost.late <= 1)
    /\ [](th[LiveCaller].pc = "ca_join" => lock # LiveCaller)
    /\ (th[LiveCaller].op = "close_all") ~> (th[LiveCaller].pc = "idle")
    /\ (~running) ~> (rpc = "done")

C38_Witness ==
    /\ ghost.shutdown
    /\ th[LiveCaller].pc = "idle"
    /\ rpc = "done"
    /\ ghost.late = 1

-----------------------------------------------------------------------------
\* Properties of the coordinator's state across failures

\* the last call was op and ended with status, and no other has started
Ended(op, status) == cl.pc = "idle" /\ cl.last.op = op /\ cl.last.status = status

\* the call was refused at its first line for the state the coordinator was in
StateRefused == cl.last.err = <<"RuntimeError">>

\* the elements of a sequence
RangeOf(q) == {q[i] : i \in 1..Len(q)}

\* C39: begin_transaction and commit change the coordinator state only after
\* their control statement succeeded: when BEGIN TRANSACTION fails or the
\* connection cannot be opened the error propagates and the state stays
\* Idle; when COMMIT fails the error propagates and the state stays Active.
C39_StateAfterSuccessOnly ==
    /\ (Ended("begin", "raised") /\ ~StateRefused) =>
          (~in_transaction /\ <<"BEGIN", "ok">> \notin RangeOf(ghost.ctl))
    /\ Ended("begin", "ok") =>
          (in_transaction /\ ghost.ctl = << <<"BEGIN", "ok">> >>)
    /\ (Ended("commit", "raised") /\ ~StateRefused) =>
          (in_transaction /\ <<"COMMIT", "ok">> \notin RangeOf(ghost.ctl))
    /\ Ended("commit", "ok") =>
          (~in_transaction /\ ghost.ctl = << <<"COMMIT", "ok">> >>)

C39_Witness ==
    /\ Ended("commit", "raised")
    /\ cl.last.err = <<"ctl", "COMMIT">>
    /\ ghost.ctl = << <<"COMMIT", "failed">> >>
    /\ in_transaction

\* C40: a coordinator that is Idle when execute_in_transaction or a
\* transaction() scope is entered is Idle again when the call or scope
\* exits, by normal return or by a raised error (a failing statement, a
\* failing COMMIT, a failing ROLLBACK).
C40_IdleAfterScopedOps ==
    \A op \in {"eit", "scope"} :
        /\ Ended(op, "ok") => ~in_transaction
        /\ (Ended(op, "raised") /\ ~StateRefused) => ~in_transaction

C40_Witness ==
    /\ Ended("scope", "raised")
    /\ cl.last.err = <<"ctl", "COMMIT">>
    /\ ghost.ctl = << <<"BEGIN", "ok">>, <<"COMMIT", "failed">>, <<"ROLLBACK", "failed">> >>
    /\ ~in_transaction

====
